---- MODULE Spec2Model ----
(***************************************************************************)
(* Live departure refresh engine of next-departure                         *)
(* (src/src/components/ClientEnhancements.tsx).                            *)
(*                                                                         *)
(* The model follows the component's state (React state and refs), the     *)
(* closures of the auto-refresh effect, the refresh timer, the fetch       *)
(* cycles in flight and the nearby-stop discoveries in flight.             *)
(*                                                                         *)
(* Time is counted in minutes.  Every instant the code stores              *)
(* (lastFetchTime, lastLocationFetchRef.current, a timer's due time) is    *)
(* kept as the time elapsed since it (or remaining until it), which is all *)
(* the code ever computes from it (Date.now() - lastFetchTime, ...).  The  *)
(* elapsed times saturate one above the largest value they are compared    *)
(* with.                                                                   *)
(***************************************************************************)
EXTENDS Integers, Sequences, FiniteSets, TLC

VARIABLES
    jsEnabled,               \* useState jsEnabled
    mounted,                 \* mountedRef.current
    settings,                \* useState settings (the fields the engine reads)
    nearbyStops,             \* useState nearbyStops
    isLoadingNearby,         \* useState isLoadingNearby
    sections,                \* useState sections: the committed ModeSection[]
    initialSections,         \* prop initialSections
    hidden,                  \* document.hidden
    geolocation,             \* whether navigator.geolocation exists
    isVisible,               \* isVisible of the live auto-refresh effect
    timeSinceLastFetch,      \* Date.now() - lastFetchTime of the live effect
    timeSinceLocationFetch,  \* Date.now() - lastLocationFetchRef.current
    refreshTimeoutRef,       \* refreshTimeoutRef.current (0 is null)
    timers,                  \* pending setTimeout callbacks
    cycles,                  \* fetchDeparturesForStops calls in flight, in start order
    discoveries,             \* getCurrentPosition / nearby lookups in flight
    timeSinceSuccess,        \* history: time since a cycle with no failure committed
    ev,                      \* history: what the step just taken met, and a landing's responses
    departure,               \* the Departure a row is rendered for
    now,                     \* useState now: the clock the rows are rendered at, in ms
    relative,                \* the class of formatDepartureTime(...).relative in the last render
    relativeBefore,          \* history: relative in the render before the last one
    boardSection,            \* prop section of a ModeSectionComponent
    departuresPerMode,       \* prop departuresPerMode
    fadingOutIds,            \* useState fadingOutIds
    previousDepartureIds,    \* previousDepartureIdsRef.current
    fadeTimers,              \* pending setTimeout callbacks of the fade-out effect
    clock,                   \* Date.now(), in ms
    tickRemaining,           \* time until the clock interval fires next
    rendered,                \* what the last render of the component returned
    effectPending,           \* the effect of the last render has not run yet
    fadedIds,                \* history: gone departures whose fade-out timer has fired
    controller               \* a RefreshController: its state, ref, timers and calls

\* the refresh engine
engineVars ==
    <<jsEnabled, mounted, settings, nearbyStops, isLoadingNearby, sections,
      initialSections, hidden, geolocation, isVisible, timeSinceLastFetch,
      timeSinceLocationFetch, refreshTimeoutRef, timers, cycles, discoveries,
      timeSinceSuccess, ev>>

\* the rendering of one departure row
rowVars == <<departure, relative, relativeBefore>>

\* one ModeSectionComponent of the board
boardVars ==
    <<boardSection, departuresPerMode, fadingOutIds, previousDepartureIds, fadeTimers,
      clock, tickRemaining, rendered, effectPending, fadedIds>>

\* one RefreshController (src/src/components/RefreshController.tsx)
controllerVars == <<controller>>

vars == <<engineVars, now, rowVars, boardVars, controllerVars>>

(***************************************************************************)
(* Bounds of the model                                                     *)
(***************************************************************************)
MaxCycles == 2
MaxDiscoveries == 1
TimerIdCount == 3

(***************************************************************************)
(* Program constants                                                       *)
(***************************************************************************)
\* LOCATION_STALE_THRESHOLD = 5 * 60 * 1000 ms, in minutes
LOCATION_STALE_THRESHOLD == 5

\* the "1 min" and "2 min" options of the refresh-interval select, in minutes
RefreshIntervalOptions == {1, 2}

Min(a, b) == IF a < b THEN a ELSE b

MaxInterval == CHOOSE m \in RefreshIntervalOptions : \A n \in RefreshIntervalOptions : n <= m

\* saturation of Date.now() - lastFetchTime and Date.now() - lastLocationFetchRef.current
FetchAgeCap == MaxInterval + 1
LocationAgeCap == LOCATION_STALE_THRESHOLD + 1

(***************************************************************************)
(* Data: departures, stops, sections                                       *)
(***************************************************************************)
\* Departure, reduced to the fields the merge and the direction filter read
Dep1 == [id |-> 1, direction |-> "x"]
Dep2 == [id |-> 2, direction |-> "y"]

\* EnabledStopInfo: a tram stop without direction filter, the same tram stop
\* filtered to direction x, and a train stop with the same stop id
StopA == [mode |-> "tram", id |-> "s1", name |-> "Cfg St", directionIds |-> {}]
StopAx == [mode |-> "tram", id |-> "s1", name |-> "Cfg St", directionIds |-> {"x"}]
StopB == [mode |-> "train", id |-> "s1", name |-> "Cfg St", directionIds |-> {}]

\* getEnabledStops(settings) of the configurations the settings can hold
StopConfigs == {<<>>, <<StopAx>>, <<StopAx, StopB>>, <<StopA, StopB>>}

\* allNearby of a discovery (NearbyStop[] mapped to EnabledStopInfo, no filter)
NearbyResults == {<<>>, <<StopB>>}

SettingsOptions ==
    [nearbyMode : BOOLEAN, refreshInterval : RefreshIntervalOptions, stops : StopConfigs]

\* What a request for one stop can come back with: response.ok with a body
\* (data.stop?.name may be missing, data.departures may be empty), a failure
\* status, or a thrown exception
Outcomes ==
    {[kind |-> "ok", name |-> "Api St", departures |-> <<Dep1>>],
     [kind |-> "ok", name |-> "", departures |-> <<Dep2>>],
     [kind |-> "ok", name |-> "Api 2", departures |-> <<>>],
     [kind |-> "http", name |-> "", departures |-> <<>>],
     [kind |-> "network", name |-> "", departures |-> <<>>]}

\* history: nothing to tell
NoEvent ==
    [facts |-> {}, stops |-> <<>>, arrived |-> <<>>, overtaken |-> {},
     stale |-> {}, replaced |-> {}]

Pending == [kind |-> "pending", name |-> "", departures |-> <<>>]

\* a || b on strings
OrElse(a, b) == IF a # "" THEN a ELSE b

RECURSIVE FilterSeq(_, _)
\* departures.filter(dep => dep.direction && directionSet.has(dep.direction.id))
FilterSeq(s, dirs) ==
    IF s = <<>> THEN <<>>
    ELSE IF Head(s).direction \in dirs
         THEN <<Head(s)>> \o FilterSeq(Tail(s), dirs)
         ELSE FilterSeq(Tail(s), dirs)

\* The ModeSection one fetch promise resolves to.  error "" is no error;
\* groupByDirection undefined (failure sections, server sections) is FALSE.
NewSection(stop, out) ==
    LET hasDirectionFilter == stop.directionIds # {}
    IN  IF out.kind = "ok"
        THEN [mode |-> stop.mode, stopId |-> stop.id,
              stopName |-> OrElse(out.name, stop.name),
              departures |-> IF hasDirectionFilter
                             THEN FilterSeq(out.departures, stop.directionIds)
                             ELSE out.departures,
              isLoading |-> FALSE, error |-> "",
              groupByDirection |-> ~hasDirectionFilter]
        ELSE [mode |-> stop.mode, stopId |-> stop.id, stopName |-> stop.name,
              departures |-> <<>>, isLoading |-> FALSE,
              error |-> IF out.kind = "http" THEN "Failed to fetch" ELSE "Network error",
              groupByDirection |-> FALSE]

\* faulty variant: a failed request ends the cycle, which keeps the
\* sections gathered before it
NewSectionsUntilFailure(stops, results) ==
    LET gathered == {i \in 1..Len(stops) : \A j \in 1..i : results[j].kind = "ok"}
    IN  [i \in 1..Cardinality(gathered) |-> NewSection(stops[i], results[i])]

\* await Promise.all(fetchPromises): one section per stop, in the order of stops
NewSections(stops, results) ==
    [i \in 1..Len(stops) |-> NewSection(stops[i], results[i])]

\* prevSections.find(ps => ps.stopId === stopId && ps.mode === mode): the index
\* of the first match, 0 when there is none
FindSection(prevSections, stopId, mode) ==
    LET hits == {i \in 1..Len(prevSections) :
                    prevSections[i].stopId = stopId /\ prevSections[i].mode = mode}
    IN  IF hits = {} THEN 0 ELSE CHOOSE i \in hits : \A j \in hits : i <= j

\* faulty variant: the fallback to previous data is lost
MergeSectionNoFallback(prevSections, newSection) == newSection

\* faulty variant: old and new departures are concatenated
MergeSectionConcat(prevSections, newSection) ==
    LET p == FindSection(prevSections, newSection.stopId, newSection.mode)
    IN  IF p # 0
        THEN [newSection EXCEPT !.departures = prevSections[p].departures \o @]
        ELSE newSection

\* faulty variant: usable previous data is preferred to a fresh result
MergeSectionKeepOld(prevSections, newSection) ==
    LET p == FindSection(prevSections, newSection.stopId, newSection.mode)
    IN  IF p # 0 /\ prevSections[p].departures # <<>> /\ prevSections[p].error = ""
        THEN prevSections[p]
        ELSE newSection

\* faulty variant: the kept section keeps its stop name as well
MergeSectionKeepName(prevSections, newSection) ==
    IF newSection.departures # <<>> /\ newSection.error = ""
    THEN newSection
    ELSE LET p == FindSection(prevSections, newSection.stopId, newSection.mode)
         IN  IF p # 0 /\ prevSections[p].departures # <<>> /\ prevSections[p].error = ""
             THEN prevSections[p]
             ELSE newSection

\* faulty variant: the previous section is looked up by stop id alone
MergeSectionAnyMode(prevSections, newSection) ==
    IF newSection.departures # <<>> /\ newSection.error = ""
    THEN newSection
    ELSE LET hits == {i \in 1..Len(prevSections) :
                         /\ prevSections[i].stopId = newSection.stopId
                         /\ prevSections[i].departures # <<>>
                         /\ prevSections[i].error = ""}
         IN  IF hits # {}
             THEN [prevSections[CHOOSE i \in hits : \A j \in hits : i <= j] EXCEPT
                      !.stopName = OrElse(newSection.stopName, @)]
             ELSE newSection

\* faulty variant: the kept section takes over the error of the fresh one
MergeSectionKeepError(prevSections, newSection) ==
    IF newSection.departures # <<>> /\ newSection.error = ""
    THEN newSection
    ELSE LET p == FindSection(prevSections, newSection.stopId, newSection.mode)
         IN  IF p # 0 /\ prevSections[p].departures # <<>> /\ prevSections[p].error = ""
             THEN [prevSections[p] EXCEPT
                      !.stopName = OrElse(newSection.stopName, prevSections[p].stopName),
                      !.error = newSection.error]
             ELSE newSection

\* the body of newSections.map(newSection => ...) inside setSections
MergeSection(prevSections, newSection) ==
    IF newSection.departures # <<>> /\ newSection.error = ""
    THEN newSection
    ELSE LET p == FindSection(prevSections, newSection.stopId, newSection.mode)
         IN  IF p # 0 /\ prevSections[p].departures # <<>> /\ prevSections[p].error = ""
             THEN [prevSections[p] EXCEPT
                      !.stopName = OrElse(newSection.stopName, prevSections[p].stopName)]
             ELSE newSection

\* setSections(prevSections => newSections.map(...))
MergeSections(prevSections, newSections) ==
    [i \in 1..Len(newSections) |-> MergeSection(prevSections, newSections[i])]

\* faulty variant: the merge reads the sections captured by a stale closure
PrevSectionsStale == initialSections

\* prevSections handed to the functional update: the state committed at landing
PrevSections == sections

(***************************************************************************)
(* Closures.  A timer callback and the continuation of a cycle in flight   *)
(* belong to one run of the auto-refresh effect and read its isVisible,    *)
(* its settings.refreshInterval and its fetchDepartures.  The live run's   *)
(* closure is the current state (the effect is re-created whenever         *)
(* settings or nearbyStops change identity).  Once a run is cleaned up its *)
(* listeners are gone, so its isVisible never changes again and its        *)
(* lastFetchTime is never read again: a callback it left behind carries    *)
(* the closure by value.                                                   *)
(***************************************************************************)
LiveOwner ==
    [live |-> TRUE, isVisible |-> FALSE, refreshInterval |-> 0,
     nearbyMode |-> FALSE, stops |-> <<>>]

\* the stops fetchDepartures fetches: nearbyStops in nearby mode, else
\* getEnabledStops(settings)
FetchTargets(s, ns) == IF s.nearbyMode THEN ns ELSE s.stops

\* the closure an owner's callbacks read, in state record s
Closure(s, o) ==
    IF o.live
    THEN [live |-> FALSE, isVisible |-> s.isVisible,
          refreshInterval |-> s.settings.refreshInterval,
          nearbyMode |-> s.settings.nearbyMode,
          stops |-> FetchTargets(s.settings, s.nearbyStops)]
    ELSE o

\* the mutable state as one record, so that the calls a handler makes compose
Cur ==
    [jsEnabled |-> jsEnabled, mounted |-> mounted, settings |-> settings,
     nearbyStops |-> nearbyStops, isLoadingNearby |-> isLoadingNearby,
     sections |-> sections, hidden |-> hidden, isVisible |-> isVisible,
     timeSinceLastFetch |-> timeSinceLastFetch,
     timeSinceLocationFetch |-> timeSinceLocationFetch,
     refreshTimeoutRef |-> refreshTimeoutRef, timers |-> timers,
     cycles |-> cycles, discoveries |-> discoveries, now |-> now]

Install(s) ==
    /\ jsEnabled' = s.jsEnabled
    /\ mounted' = s.mounted
    /\ settings' = s.settings
    /\ nearbyStops' = s.nearbyStops
    /\ isLoadingNearby' = s.isLoadingNearby
    /\ sections' = s.sections
    /\ hidden' = s.hidden
    /\ isVisible' = s.isVisible
    /\ timeSinceLastFetch' = s.timeSinceLastFetch
    /\ timeSinceLocationFetch' = s.timeSinceLocationFetch
    /\ refreshTimeoutRef' = s.refreshTimeoutRef
    /\ timers' = s.timers
    /\ cycles' = s.cycles
    /\ discoveries' = s.discoveries
    /\ now' = s.now
    /\ UNCHANGED <<initialSections, geolocation, rowVars, boardVars, controllerVars>>

\* what the bounds allow a handler to leave in flight
WithinBounds(s) == Len(s.cycles) <= MaxCycles /\ s.discoveries <= MaxDiscoveries

(***************************************************************************)
(* The refresh timer                                                       *)
(***************************************************************************)
\* clearTimeout(id): a fired or cleared id, or null, clears nothing
ClearTimer(ts, id) == {t \in ts : t.id # id}

\* the id setTimeout returns.  The browser never reuses an id; here the
\* lowest id of no pending timer is taken, which is as good: the only holder
\* of an id is refreshTimeoutRef.current, overwritten with the new id at once
NewTimerId(ts) ==
    CHOOSE i \in 1..TimerIdCount :
        /\ \A t \in ts : t.id # i
        /\ \A j \in 1..(i - 1) : \E t \in ts : t.id = j

\* faulty variant: the timer is armed without clearing the pending one
ScheduleRefreshNoClear(s, owner) ==
    [s EXCEPT !.timers = @ \cup
                 {[id |-> NewTimerId(s.timers), owner |-> owner,
                   remaining |-> Closure(s, owner).refreshInterval]},
              !.refreshTimeoutRef = NewTimerId(s.timers)]

\* scheduleRefresh of the run that owns the caller
ScheduleRefresh(s, owner) ==
    LET cleared == ClearTimer(s.timers, s.refreshTimeoutRef)
        id == NewTimerId(cleared)
    IN  [s EXCEPT !.timers = cleared \cup
                     {[id |-> id, owner |-> owner,
                       remaining |-> Closure(s, owner).refreshInterval]},
                  !.refreshTimeoutRef = id]

(***************************************************************************)
(* Fetch cycles                                                            *)
(***************************************************************************)
\* faulty variant: the limit the server-rendered page asks for
FetchLimitOfServer(perMode, hasDirectionFilter) == perMode + 2

\* fetchLimit of a request, bufferMultiplier being 2
FetchLimit(perMode, hasDirectionFilter) ==
    IF ~hasDirectionFilter THEN (perMode * 2 + 2) * 4 ELSE (perMode * 2 + 2) * 3

\* one call of fetchDeparturesForStops with its requests in flight: limits
\* are the limit parameters of the requests, settings.departuresPerMode
\* being departuresPerMode.  trigger and owner say what runs when
\* fetchDepartures resolves.  History: overtaken, the (mode, stopId) pairs
\* whose committed section is the non-empty success of a cycle started
\* after this one.
NewCycle(stops, trigger, owner) ==
    [stops |-> stops, trigger |-> trigger, owner |-> owner, overtaken |-> {},
     limits |-> [i \in 1..Len(stops) |->
                    FetchLimit(departuresPerMode, stops[i].directionIds # {})]]

\* fetchDeparturesForStops up to its first await: no stops clears the
\* sections at once (React drops the update of an unmounted component)
StartFetch(s, stops, trigger, owner) ==
    IF stops = <<>>
    THEN IF s.mounted
         THEN [s EXCEPT !.sections = <<>>,
                        !.cycles = [k \in 1..Len(s.cycles) |->
                                       [s.cycles[k] EXCEPT !.overtaken = {}]]]
         ELSE s
    ELSE [s EXCEPT !.cycles = Append(@, NewCycle(stops, trigger, owner))]

\* fetchDepartures as closed over by c, up to its first await
FetchDepartures(s, c, trigger, owner) ==
    IF c.nearbyMode
    THEN IF c.stops # <<>> THEN StartFetch(s, c.stops, trigger, owner) ELSE s
    ELSE StartFetch(s, c.stops, trigger, owner)

\* lastFetchTime = Date.now() in the owner's run
SetLastFetchTime(s, owner) ==
    IF owner.live THEN [s EXCEPT !.timeSinceLastFetch = 0] ELSE s

\* what follows `await fetchDepartures()` in the timer callback, and the
\* .then() of the resume handler
AfterFetch(s, trigger, owner) ==
    IF trigger = "timer" THEN ScheduleRefresh(SetLastFetchTime(s, owner), owner)
    ELSE IF trigger = "resume" THEN SetLastFetchTime(s, owner)
    ELSE s

\* fetchDepartures() followed by its continuation when it resolves without
\* a request (no stops)
FetchThen(s, trigger, owner) ==
    LET c == Closure(s, owner)
        s1 == FetchDepartures(s, c, trigger, owner)
    IN  IF c.stops = <<>> THEN AfterFetch(s1, trigger, owner) ELSE s1

(***************************************************************************)
(* The auto-refresh effect                                                 *)
(***************************************************************************)
\* the owner of a callback left behind by the run being cleaned up
Freeze(s, o) == Closure(s, o)

\* the cycles in flight once the run is cleaned up: the continuation of a
\* timer callback keeps the closure of its run; the .then() of a resume only
\* writes the lastFetchTime of its run, which nothing reads again, so the
\* cycle is left without continuation
FreezeCycles(s) ==
    [k \in 1..Len(s.cycles) |->
        IF s.cycles[k].trigger = "timer"
        THEN [s.cycles[k] EXCEPT !.owner = Freeze(s, s.cycles[k].owner)]
        ELSE [s.cycles[k] EXCEPT !.trigger = "effect", !.owner = LiveOwner]]

\* the effect's cleanup: listeners removed, clearTimeout(refreshTimeoutRef.current)
CleanupEffect(s) ==
    [s EXCEPT !.timers = {[t EXCEPT !.owner = Freeze(s, t.owner)] :
                             t \in ClearTimer(s.timers, s.refreshTimeoutRef)},
              !.cycles = FreezeCycles(s)]

\* the effect body: isVisible = !document.hidden, lastFetchTime = Date.now(),
\* scheduleRefresh(), listeners added
CreateEffect(s) ==
    ScheduleRefresh([s EXCEPT !.isVisible = ~s.hidden, !.timeSinceLastFetch = 0],
                    LiveOwner)

\* a render in which settings or nearbyStops changed identity: cleanup with
\* the old closure, then the effect body with the new one
RecreateEffect(s, newSettings, newNearbyStops) ==
    CreateEffect([CleanupEffect(s) EXCEPT !.settings = newSettings,
                                          !.nearbyStops = newNearbyStops])

\* fetchNearbyStops(clearExisting) up to getCurrentPosition
FetchNearbyStops(s, clearExisting) ==
    IF ~geolocation THEN s
    ELSE LET s1 == IF clearExisting THEN RecreateEffect(s, s.settings, <<>>) ELSE s
         IN  [s1 EXCEPT !.isLoadingNearby = TRUE, !.discoveries = @ + 1]

\* isStale = timeSinceLastFetch > settings.refreshInterval * 1000
IsStale(s) == s.timeSinceLastFetch > s.settings.refreshInterval

\* faulty variant: a stale location also lets stale data refetch
ResumeFetchBoth(s) ==
    IF s.settings.nearbyMode
    THEN IF s.timeSinceLocationFetch > LOCATION_STALE_THRESHOLD
         THEN FetchThen(FetchNearbyStops(s, FALSE), "resume", LiveOwner)
         ELSE IF IsStale(s) THEN FetchThen(s, "resume", LiveOwner) ELSE s
    ELSE IF IsStale(s) THEN FetchThen(s, "resume", LiveOwner) ELSE s

\* the visible branch of handleVisibilityChange before scheduleRefresh()
ResumeFetch(s) ==
    IF s.settings.nearbyMode
    THEN IF s.timeSinceLocationFetch > LOCATION_STALE_THRESHOLD
         THEN FetchNearbyStops(s, FALSE)
         ELSE IF IsStale(s) THEN FetchThen(s, "resume", LiveOwner) ELSE s
    ELSE IF IsStale(s) THEN FetchThen(s, "resume", LiveOwner) ELSE s

\* faulty variant: the clock of the rows is left to the next interval tick
HandleVisibilityChangeKeepNow(s) ==
    LET s1 == [s EXCEPT !.isVisible = ~s.hidden]
    IN  IF s1.isVisible
        THEN ScheduleRefresh(ResumeFetch(s1), LiveOwner)
        ELSE [s1 EXCEPT !.timers = ClearTimer(@, s1.refreshTimeoutRef),
                        !.refreshTimeoutRef = 0]

\* handleVisibilityChange of the live run, document.hidden being s.hidden;
\* setNow(new Date()) when the page is visible
HandleVisibilityChange(s) ==
    LET s1 == [s EXCEPT !.isVisible = ~s.hidden]
    IN  IF s1.isVisible
        THEN ScheduleRefresh(ResumeFetch([s1 EXCEPT !.now = clock]), LiveOwner)
        ELSE [s1 EXCEPT !.timers = ClearTimer(@, s1.refreshTimeoutRef),
                        !.refreshTimeoutRef = 0]

(***************************************************************************)
(* Initial state: the server-rendered page before hydration                *)
(***************************************************************************)
\* a section as src/src/app/page.tsx builds it on the server: no direction
\* filter is applied and groupByDirection is absent
ServerSection(stop, ok) ==
    IF ok
    THEN [mode |-> stop.mode, stopId |-> stop.id, stopName |-> "Api St",
          departures |-> <<Dep1>>, isLoading |-> FALSE, error |-> "",
          groupByDirection |-> FALSE]
    ELSE [mode |-> stop.mode, stopId |-> stop.id, stopName |-> stop.name,
          departures |-> <<>>, isLoading |-> FALSE, error |-> "Failed to fetch",
          groupByDirection |-> FALSE]

\* the sections the server can have rendered for stops
ServerSections(stops) ==
    {[i \in 1..Len(stops) |-> ServerSection(stops[i], ok[i])] :
        ok \in [1..Len(stops) -> BOOLEAN]}

\* the page before hydration, for given sets of settings, server sections,
\* document.hidden and geolocation support
InitOver(settingsSet, sectionsSet, hiddenSet, geolocationSet) ==
    /\ jsEnabled = FALSE
    /\ mounted = TRUE
    /\ settings \in settingsSet
    /\ nearbyStops = <<>>
    /\ isLoadingNearby = FALSE
    /\ initialSections \in sectionsSet
    /\ sections = initialSections
    /\ hidden \in hiddenSet
    /\ geolocation \in geolocationSet
    /\ isVisible = FALSE
    /\ timeSinceLastFetch = 0
    /\ timeSinceLocationFetch = LocationAgeCap
    /\ refreshTimeoutRef = 0
    /\ timers = {}
    /\ cycles = <<>>
    /\ discoveries = 0
    /\ timeSinceSuccess = 0
    /\ ev = NoEvent

(***************************************************************************)
(* History.  ev holds the cases the step just taken met and, when a cycle  *)
(* has landed and committed, the stops of the cycle, its responses in      *)
(* arrival order, its overtaken pairs, and the indices at which a usable   *)
(* section was kept (stale) or gave way to a fresh result with other       *)
(* departures (replaced).  timeSinceSuccess is the time since the page was *)
(* rendered or a cycle without a failed request was committed.             *)
(***************************************************************************)
Event(facts) == [NoEvent EXCEPT !.facts = facts]

Note(facts) == ev' = Event(facts) /\ UNCHANGED timeSinceSuccess

\* facts[f] being booleans, the names f that hold
Holding(facts) == {f \in DOMAIN facts : facts[f]}

\* whether the handler that leaves s called fetchDeparturesForStops with stops
Started(s) == Len(s.cycles) > Len(cycles)

(***************************************************************************)
(* Handlers                                                                *)
(***************************************************************************)
\* faulty variant: the scheduler starts without the home-mode fetch
MountEffectsTimerOnly(s) ==
    LET s1 == CreateEffect(s)
    IN  IF s1.settings.nearbyMode THEN FetchNearbyStops(s1, TRUE) ELSE s1

\* the effects that run once jsEnabled is true: auto-refresh, the home-mode
\* fetch, the nearby-stops fetch and the location detection, in source order
MountEffects(s) ==
    LET s1 == CreateEffect(s)
        s2 == IF ~s1.settings.nearbyMode
              THEN FetchThen(s1, "effect", LiveOwner) ELSE s1
        s3 == IF s2.settings.nearbyMode /\ s2.nearbyStops # <<>>
              THEN FetchThen(s2, "effect", LiveOwner) ELSE s2
    IN  IF s3.settings.nearbyMode THEN FetchNearbyStops(s3, TRUE) ELSE s3

\* hydration: setSettings(loadSettings()), localStorage holding
\* localSettings, and setJsEnabled(true); then the effects
Hydrate(localSettings) ==
    /\ ~jsEnabled /\ mounted
    /\ LET s == MountEffects([Cur EXCEPT !.jsEnabled = TRUE, !.settings = localSettings])
       IN  WithinBounds(s) /\ Install(s) /\ Note({"start"})

\* the effects a settings change re-runs, old being the previous settings
SettingsEffects(s, old) ==
    LET new == s.settings
        modeChanged == new.nearbyMode # old.nearbyMode
        s1 == IF ~new.nearbyMode /\ (modeChanged \/ new.stops # old.stops)
              THEN FetchThen(s, "effect", LiveOwner) ELSE s
        s2 == IF new.nearbyMode /\ modeChanged /\ s1.nearbyStops # <<>>
              THEN FetchThen(s1, "effect", LiveOwner) ELSE s1
    IN  IF new.nearbyMode /\ modeChanged THEN FetchNearbyStops(s2, TRUE) ELSE s2

\* handleSettingsChange(newSettings), from the settings modal of a visible page
SettingsChange(new) ==
    /\ jsEnabled /\ mounted /\ ~hidden
    /\ LET s == SettingsEffects(RecreateEffect(Cur, new, nearbyStops), settings)
       IN  WithinBounds(s) /\ Install(s) /\ Note({"settings"})

\* one minute passes for the hydrated page (before hydration the program
\* holds no instant and no timer)
Elapse ==
    /\ jsEnabled
    /\ Install([Cur EXCEPT
          !.timeSinceLastFetch = Min(@ + 1, FetchAgeCap),
          !.timeSinceLocationFetch = Min(@ + 1, LocationAgeCap),
          !.timers = {[t EXCEPT !.remaining = IF @ > 0 THEN @ - 1 ELSE 0] : t \in timers}])
    /\ ev' = NoEvent

\* one minute passes, the history clock left alone
Tick == Elapse /\ UNCHANGED timeSinceSuccess

\* one minute passes, the history clock following
TickTracked == Elapse /\ timeSinceSuccess' = Min(timeSinceSuccess + 1, FetchAgeCap)

\* faulty variant: the callback re-arms the timer without awaiting the cycle
TimerCallbackRearmFirst(s, owner) ==
    IF Closure(s, owner).isVisible
    THEN ScheduleRefresh(FetchThen(s, "effect", owner), owner)
    ELSE ScheduleRefresh(s, owner)

\* the setTimeout callback of scheduleRefresh
TimerCallback(s, owner) ==
    IF Closure(s, owner).isVisible
    THEN FetchThen(s, "timer", owner)
    ELSE ScheduleRefresh(s, owner)

\* a pending timer comes due (no earlier than its delay, possibly later)
TimerFire(t) ==
    /\ t \in timers /\ t.remaining = 0
    /\ LET s == TimerCallback([Cur EXCEPT !.timers = @ \ {t}], t.owner)
       IN  /\ WithinBounds(s) /\ Install(s)
           /\ Note(Holding([fire |-> TRUE,
                            fireVisible |-> Closure(Cur, t.owner).isVisible,
                            fireNoStops |-> Closure(Cur, t.owner).stops = <<>>]))

\* faulty variant: results are collected in the order the responses arrive
SettleByArrival(results, i, out) ==
    LET free == {j \in 1..Len(results) : results[j] = Pending}
    IN  [results EXCEPT ![CHOOSE j \in free : \A l \in free : j <= l] = out]

\* Promise.all keeps each promise's value at the promise's index
Settle(results, i, out) == [results EXCEPT ![i] = out]

RECURSIVE SettleAll(_, _)
\* the array Promise.all resolves to once the responses of arrived, a
\* sequence of [index, outcome] in arrival order, have all settled
SettleAll(results, arrived) ==
    IF arrived = <<>> THEN results
    ELSE SettleAll(Settle(results, Head(arrived).index, Head(arrived).outcome),
                   Tail(arrived))

\* the orders in which the n requests of a cycle can settle, with outcomes
\* from outs (cycles hold at most two stops)
Arrivals(n, outs) ==
    IF n = 1 THEN {<<[index |-> 1, outcome |-> o]>> : o \in outs}
    ELSE {<<[index |-> p[1], outcome |-> o1], [index |-> p[2], outcome |-> o2]>> :
             <<p, o1, o2>> \in {<<1, 2>>, <<2, 1>>} \X outs \X outs}

\* the (mode, stopId) pairs for which batch holds a non-empty success
FreshPairs(batch) ==
    {<<batch[i].mode, batch[i].stopId>> :
        i \in {j \in 1..Len(batch) : batch[j].departures # <<>> /\ batch[j].error = ""}}

\* the cycles left in flight when cycle k lands and commits batch
RemoveCycle(cs, k, batch, committed) ==
    [j \in 1..(Len(cs) - 1) |->
        IF ~committed THEN (IF j < k THEN cs[j] ELSE cs[j + 1])
        ELSE IF j < k THEN [cs[j] EXCEPT !.overtaken = FreshPairs(batch)]
        ELSE [cs[j + 1] EXCEPT !.overtaken = {}]]

\* a section with at least one departure and no error
Usable(section) == section.departures # <<>> /\ section.error = ""

\* history: the indices of batch that meet a usable committed section
\* and keep it
StaleAt(batch) ==
    {i \in 1..Len(batch) :
        LET p == FindSection(sections, batch[i].stopId, batch[i].mode)
        IN  ~Usable(batch[i]) /\ p # 0 /\ Usable(sections[p])}

\* history: the indices of batch that replace a usable committed section
\* holding other departures
ReplacedAt(batch) ==
    {i \in 1..Len(batch) :
        LET p == FindSection(sections, batch[i].stopId, batch[i].mode)
        IN  /\ Usable(batch[i]) /\ p # 0 /\ Usable(sections[p])
            /\ sections[p].departures # batch[i].departures}

\* Cycle k lands: its requests settle in the order arrived, Promise.all
\* resolves, and the continuation of `await Promise.all(fetchPromises)`
\* commits the merge when still mounted; then fetchDepartures resolves and
\* its caller continues.  (A response touches no state before Promise.all
\* resolves, and the continuations run before any other task.)
Land(k, arrived) ==
    /\ k \in 1..Len(cycles)
    /\ LET c == cycles[k]
           results == SettleAll([i \in 1..Len(c.stops) |-> Pending], arrived)
           batch == NewSections(c.stops, results)
           s0 == [Cur EXCEPT !.cycles = RemoveCycle(cycles, k, batch, mounted)]
           s1 == IF mounted
                 THEN [s0 EXCEPT !.sections = MergeSections(PrevSections, batch)]
                 ELSE s0
       IN  /\ Install(AfterFetch(s1, c.trigger, c.owner))
           /\ ev' = IF mounted
                    THEN [facts |-> IF c.trigger = "timer" THEN {"timerCycle"} ELSE {},
                          stops |-> c.stops, arrived |-> arrived,
                          overtaken |-> c.overtaken, stale |-> StaleAt(batch),
                          replaced |-> ReplacedAt(batch)]
                    ELSE NoEvent
           /\ timeSinceSuccess' =
                  IF mounted /\ \A i \in 1..Len(batch) : batch[i].error = ""
                  THEN 0 ELSE timeSinceSuccess

\* history: what handleVisibilityChange met in s0 and did, leaving s
ResumeFacts(s0, s) ==
    IF s0.hidden THEN {}
    ELSE Holding([
           resume |-> TRUE,
           dataStale |-> IsStale(s0),
           locationStale |-> s0.timeSinceLocationFetch > LOCATION_STALE_THRESHOLD,
           started |-> Started(s),
           discovering |-> s.discoveries > s0.discoveries])

\* document.hidden flips and visibilitychange is dispatched; only a live
\* auto-refresh effect listens
VisibilityChange ==
    /\ LET s0 == [Cur EXCEPT !.hidden = ~hidden]
           s == IF jsEnabled /\ mounted THEN HandleVisibilityChange(s0) ELSE s0
       IN  /\ WithinBounds(s) /\ Install(s)
           /\ Note(IF jsEnabled /\ mounted THEN ResumeFacts(s0, s) ELSE {})

\* pageshow with event.persisted: handlePageShow calls handleVisibilityChange
PageShow ==
    /\ jsEnabled /\ mounted
    /\ LET s == HandleVisibilityChange(Cur)
       IN  WithinBounds(s) /\ Install(s) /\ Note(ResumeFacts(Cur, s))

\* the success callback of getCurrentPosition after its nearby lookups:
\* allNearby is committed when still mounted, which re-creates the
\* auto-refresh effect and re-runs the nearby-stops fetch effect
DiscoveryLand(allNearby) ==
    /\ discoveries > 0
    /\ LET s0 == [Cur EXCEPT !.discoveries = @ - 1]
           s1 == [RecreateEffect(s0, settings, allNearby) EXCEPT
                     !.isLoadingNearby = FALSE, !.timeSinceLocationFetch = 0]
           s2 == IF s1.settings.nearbyMode /\ allNearby # <<>>
                 THEN FetchThen(s1, "effect", LiveOwner) ELSE s1
           s == IF mounted THEN s2 ELSE s0
       IN  WithinBounds(s) /\ Install(s) /\ Note({})

\* the error callback of getCurrentPosition
DiscoveryError ==
    /\ discoveries > 0
    /\ Install([Cur EXCEPT !.discoveries = @ - 1,
                           !.isLoadingNearby = IF mounted THEN FALSE ELSE @])
    /\ Note({"locationError"})

\* the component unmounts: mountedRef.current = false and the effect cleanup
Unmount ==
    /\ jsEnabled /\ mounted
    /\ Install([CleanupEffect(Cur) EXCEPT !.mounted = FALSE])
    /\ Note({})

(***************************************************************************)
(* Departure rows: src/src/lib/utils/time.ts and the rows of               *)
(* CombinedBoard.  Instants are in milliseconds, as Date.getTime() gives   *)
(* them; an absent estimatedTime is <<>>, a present one <<t>>.             *)
(***************************************************************************)
\* diffMs / 1000 / 60 divides by the milliseconds of a minute
MsPerMinute == 1000 * 60

\* a faulty variant: the fraction is cut off (Math.trunc)
RoundTowardZero(num, den) ==
    IF num >= 0 THEN num \div den ELSE -((-num) \div den)

\* Math.round(num / den) for den > 0: the nearest integer, a half going up
Round(num, den) == (2 * num + den) \div (2 * den)

\* faulty variant: the distance to the departure, whichever side of now
FormatRelativeTimeAbs(isoTime, t) ==
    LET diffMs == IF isoTime >= t THEN isoTime - t ELSE t - isoTime
        diffMinutes == Round(diffMs, MsPerMinute)
    IN  IF diffMinutes = 0 THEN <<"now">> ELSE <<"min", diffMinutes>>

\* formatRelativeTime(isoTime, now): 'gone', 'now', 'N min', 'H hr' or
\* 'H hr M min', as the words and numbers of the string
FormatRelativeTime(isoTime, t) ==
    LET diffMs == isoTime - t
        diffMinutes == Round(diffMs, MsPerMinute)
        hours == diffMinutes \div 60
        minutes == diffMinutes % 60
    IN  IF diffMinutes < 0 THEN <<"gone">>
        ELSE IF diffMinutes = 0 THEN <<"now">>
        ELSE IF diffMinutes < 60 THEN <<"min", diffMinutes>>
        ELSE IF minutes = 0 THEN <<"hr", hours>>
        ELSE <<"hr min", hours, minutes>>

\* estimatedTime || scheduledTime
EffectiveTime(scheduledTime, estimatedTime) ==
    IF estimatedTime # <<>> THEN estimatedTime[1] ELSE scheduledTime

\* formatDepartureTime(scheduledTime, estimatedTime, now), without the
\* locale string `absolute`
FormatDepartureTime(scheduledTime, estimatedTime, t) ==
    [relative |-> FormatRelativeTime(EffectiveTime(scheduledTime, estimatedTime), t),
     isRealTime |-> estimatedTime # <<>>,
     delayMinutes |-> IF estimatedTime # <<>>
                      THEN Round(estimatedTime[1] - scheduledTime, MsPerMinute)
                      ELSE 0]

\* what the rows make of timeInfo.relative: 'gone' rows are set apart,
\* 'now' rows are marked as departing, all others are upcoming
Classify(d, t) ==
    LET timeInfo == FormatDepartureTime(d.scheduledTime, d.estimatedTime, t)
    IN  IF timeInfo.relative = <<"gone">> THEN "gone"
        ELSE IF timeInfo.relative = <<"now">> THEN "departing-now"
        ELSE "upcoming"

\* the instants departures and renders are drawn from: the half minutes,
\* one millisecond before and after each
MaxHalfMinutes == 6

Instants ==
    {k * (MsPerMinute \div 2) + e : k \in 1..MaxHalfMinutes, e \in {-1, 0, 1}}

\* Departure, reduced to the fields the rows' time reads
Departures ==
    [scheduledTime : Instants, estimatedTime : {<<>>} \cup {<<t>> : t \in Instants}]

\* no row is rendered
RowIdle ==
    /\ departure = [scheduledTime |-> 0, estimatedTime |-> <<>>]
    /\ now = 0
    /\ relative = ""
    /\ relativeBefore = ""

\* the first render of a row for some departure at some instant
RowInit ==
    /\ departure \in Departures
    /\ now \in Instants
    /\ relative = Classify(departure, now)
    /\ relativeBefore = ""

\* setNow(new Date()) at the later instant t, and the render that follows:
\* the row is formatted again for the same departure
ClockTick(t) ==
    /\ t > now
    /\ now' = t
    /\ relative' = Classify(departure, t)
    /\ relativeBefore' = relative
    /\ UNCHANGED <<departure, engineVars, boardVars, controllerVars>>

(***************************************************************************)
(* The board: ModeSectionComponent of CombinedBoard (src/unnamed/part_000) *)
(***************************************************************************)
\* FADE_OUT_DURATION, in ms
FADE_OUT_DURATION == 500

\* the period of the clock interval (setInterval(..., 1000)), in ms
ClockInterval == 1000

\* array.slice(0, n)
Slice(s, n) == SubSeq(s, 1, Min(n, Len(s)))

\* the ids of the departures of an array
Ids(s) == {s[i].id : i \in 1..Len(s)}

\* a faulty variant: the gone departures are not taken out of the
\* upcoming ones
UpcomingDeparturesUnfiltered(sec, t) == sec.departures

\* upcomingDepartures and goneDepartures: the departures of the section
\* whose timeInfo.relative is not, or is, 'gone'
UpcomingDepartures(sec, t) ==
    SelectSeq(sec.departures, LAMBDA d : Classify(d, t) # "gone")

GoneDepartures(sec, t) ==
    SelectSeq(sec.departures, LAMBDA d : Classify(d, t) = "gone")

\* goneDepartures.filter(d => fadingOutIds.has(d.id))
FadingDepartures(sec, t, fading) ==
    SelectSeq(GoneDepartures(sec, t), LAMBDA d : d.id \in fading)

\* dep.direction?.id || 'unknown'
DirectionId(d) == OrElse(d.direction, "unknown")

RECURSIVE DirectionOrder(_, _)
\* the keys of the Map in insertion order: each direction at its first
\* departure, seen being the directions met before
DirectionOrder(departures, seen) ==
    IF departures = <<>> THEN <<>>
    ELSE IF DirectionId(Head(departures)) \in seen
         THEN DirectionOrder(Tail(departures), seen)
         ELSE <<DirectionId(Head(departures))>>
                  \o DirectionOrder(Tail(departures),
                                    seen \cup {DirectionId(Head(departures))})

\* a.departures[0]?.estimatedTime || a.departures[0]?.scheduledTime, the
\* ISO strings comparing as their instants do
GroupTime(group) ==
    EffectiveTime(group.departures[1].scheduledTime, group.departures[1].estimatedTime)

RECURSIVE SortGroups(_)
\* Array.prototype.sort by GroupTime, stable
SortGroups(groups) ==
    IF groups = <<>> THEN <<>>
    ELSE LET first == CHOOSE i \in 1..Len(groups) :
                         /\ \A j \in 1..Len(groups) : GroupTime(groups[i]) <= GroupTime(groups[j])
                         /\ \A j \in 1..(i - 1) : GroupTime(groups[j]) > GroupTime(groups[i])
         IN  <<groups[first]>>
                 \o SortGroups(SubSeq(groups, 1, first - 1)
                                   \o SubSeq(groups, first + 1, Len(groups)))

\* groupDeparturesByDirection(departures, maxPerDirection)
GroupDeparturesByDirection(departures, maxPerDirection) ==
    LET order == DirectionOrder(departures, {})
    IN  SortGroups([k \in 1..Len(order) |->
            [directionId |-> order[k],
             departures |-> Slice(SelectSeq(departures,
                                            LAMBDA d : DirectionId(d) = order[k]),
                                  maxPerDirection)]])

\* the rows of the departures of an array, each with its isFadingOut
Rows(departures, fading) ==
    [i \in 1..Len(departures) |->
        [id |-> departures[i].id, isFadingOut |-> departures[i].id \in fading]]

\* What ModeSectionComponent returns for section sec at instant t: the
\* direction groups with their rows, or the flat rows; no row while
\* loading, for an error, or when there is nothing to display.
Render(sec, perMode, t, fading) ==
    LET upcoming == UpcomingDepartures(sec, t)
        fadingDepartures == FadingDepartures(sec, t, fading)
        displayDepartures == upcoming \o fadingDepartures
        shouldGroup == sec.groupByDirection /\ displayDepartures # <<>>
        directionGroups ==
            GroupDeparturesByDirection(displayDepartures, perMode + Len(fadingDepartures))
        flatDepartures == Slice(displayDepartures, perMode + Len(fadingDepartures))
    IN  IF sec.isLoading \/ sec.error # "" THEN [groups |-> <<>>, flat |-> <<>>]
        ELSE IF shouldGroup
        THEN [groups |-> [k \in 1..Len(directionGroups) |->
                             [directionId |-> directionGroups[k].directionId,
                              rows |-> Rows(directionGroups[k].departures, fading)]],
              flat |-> <<>>]
        ELSE [groups |-> <<>>, flat |-> Rows(flatDepartures, fading)]

\* the ids of the rows of a render
RenderedIds(r) ==
    {r.flat[i].id : i \in 1..Len(r.flat)}
        \cup UNION {{r.groups[k].rows[i].id : i \in 1..Len(r.groups[k].rows)} :
                       k \in 1..Len(r.groups)}

\* the effective time of a departure that is 'gone' in every render after
\* instant t, and in none up to t
GoneAfter(t) == t - MsPerMinute \div 2

\* the longest time the board is followed for, in ms
MaxClock == 3000

\* the departures of the board's stop: a and b leave within the first
\* seconds (together, or b a second later), c does not; b runs late in
\* one result
BoardDepartures ==
    [a |-> {[id |-> "a", scheduledTime |-> GoneAfter(ClockInterval \div 2),
             estimatedTime |-> <<>>, direction |-> "x"]},
     b |-> {[id |-> "b", scheduledTime |-> GoneAfter(ClockInterval \div 2),
             estimatedTime |-> e, direction |-> dir] :
               e \in {<<>>, <<GoneAfter(ClockInterval + ClockInterval \div 2)>>},
               dir \in {"x", "y"}},
     c |-> {[id |-> "c", scheduledTime |-> MsPerMinute,
             estimatedTime |-> <<>>, direction |-> dir] : dir \in {"x", ""}}]

\* section.departures: the results the API gives for the stop, in its order
BoardLists ==
    {<<a>> : a \in BoardDepartures.a}
        \cup {<<a, b>> : a \in BoardDepartures.a, b \in BoardDepartures.b}
        \cup {<<a, c>> : a \in BoardDepartures.a, c \in BoardDepartures.c}
        \cup {<<a, b, c>> : a \in BoardDepartures.a, b \in BoardDepartures.b,
                             c \in BoardDepartures.c}

\* the values of the setting departuresPerMode the board is followed for
DisplayCounts == {1, 2}

\* the largest number of departures per stop the settings modal offers
MaxDisplayCount == 5

\* no board is rendered
BoardIdle ==
    /\ boardSection = [departures |-> <<>>, groupByDirection |-> FALSE,
                       isLoading |-> FALSE, error |-> ""]
    /\ departuresPerMode = 1
    /\ fadingOutIds = {}
    /\ previousDepartureIds = {}
    /\ fadeTimers = {}
    /\ clock = 0
    /\ tickRemaining = 0
    /\ rendered = [groups |-> <<>>, flat |-> <<>>]
    /\ effectPending = FALSE
    /\ fadedIds = {}

\* the first render of a section, its effect still to run
BoardInit ==
    /\ boardSection \in [departures : BoardLists, groupByDirection : BOOLEAN,
                          isLoading : {FALSE}, error : {""}]
    /\ departuresPerMode \in DisplayCounts
    /\ fadingOutIds = {}
    /\ previousDepartureIds = {}
    /\ fadeTimers = {}
    /\ clock = 0
    /\ now = 0
    /\ tickRemaining = ClockInterval
    /\ rendered = Render(boardSection, departuresPerMode, now, fadingOutIds)
    /\ effectPending = TRUE
    /\ fadedIds = {}

\* history: a departure that is rendered as not gone again has no fade
\* behind it any more
StillGone(ids, sec, t) == ids \cap Ids(GoneDepartures(sec, t))

\* the component renders again with the section, the instant and the
\* fading set given; the effect of the render is to run
Rerender(sec, t, fading) ==
    /\ rendered' = Render(sec, departuresPerMode, t, fading)
    /\ effectPending' = TRUE

\* a faulty variant: the effect takes every gone departure of the data
\* that is not fading for newly gone, whatever the previous render showed
NewlyGoneIdsAnyGone(sec, t, previousIds, fading) ==
    {id \in Ids(GoneDepartures(sec, t)) : id \notin fading}

\* a faulty variant: the effect does not ask whether the departure is still
\* in the data
NewlyGoneIdsNotInData(sec, t, previousIds, fading) ==
    {id \in previousIds :
        /\ id \notin Ids(UpcomingDepartures(sec, t))
        /\ id \notin fading}

\* the ids the effect finds newly gone: in the previous upcoming set, not
\* in the current one, still in the data and not fading yet
NewlyGoneIds(sec, t, previousIds, fading) ==
    {id \in previousIds :
        /\ id \notin Ids(UpcomingDepartures(sec, t))
        /\ id \in Ids(GoneDepartures(sec, t))
        /\ id \notin fading}

\* the timeouts the effect leaves pending
EffectTimers(timeouts, newlyGoneIds) ==
    IF newlyGoneIds = {} THEN timeouts
    ELSE timeouts \cup {[ids |-> newlyGoneIds, remaining |-> FADE_OUT_DURATION]}

\* The effect of the last render runs: the newly gone departures enter the
\* fading set and a timeout is set to take them out; the state update
\* renders the component again.
RunEffect ==
    /\ effectPending
    /\ LET newlyGoneIds ==
               NewlyGoneIds(boardSection, now, previousDepartureIds, fadingOutIds)
       IN  /\ fadingOutIds' = fadingOutIds \cup newlyGoneIds
           /\ fadeTimers' = EffectTimers(fadeTimers, newlyGoneIds)
           /\ IF newlyGoneIds # {}
              THEN Rerender(boardSection, now, fadingOutIds')
              ELSE effectPending' = FALSE /\ UNCHANGED rendered
    /\ previousDepartureIds' = Ids(UpcomingDepartures(boardSection, now))
    /\ UNCHANGED <<boardSection, departuresPerMode, clock, tickRemaining, fadedIds,
                   now, rowVars, engineVars,
                   controllerVars>>

\* A timeout of the effect comes due: its departures leave the fading set
\* and the component renders again.
FadeTimeout(timer) ==
    /\ ~effectPending
    /\ timer \in fadeTimers
    /\ timer.remaining = 0
    /\ fadeTimers' = fadeTimers \ {timer}
    /\ fadingOutIds' = fadingOutIds \ timer.ids
    /\ fadedIds' = StillGone(fadedIds \cup timer.ids, boardSection, now)
    /\ Rerender(boardSection, now, fadingOutIds')
    /\ UNCHANGED <<boardSection, departuresPerMode, previousDepartureIds, clock,
                   tickRemaining, now, rowVars, engineVars,
                   controllerVars>>

\* The clock interval fires: setNow(new Date()) and the render that follows.
BoardTick ==
    /\ ~effectPending
    /\ tickRemaining = 0
    /\ now' = clock
    /\ tickRemaining' = ClockInterval
    /\ fadedIds' = StillGone(fadedIds, boardSection, now')
    /\ Rerender(boardSection, now', fadingOutIds)
    /\ UNCHANGED <<boardSection, departuresPerMode, fadingOutIds, previousDepartureIds,
                   fadeTimers, clock, rowVars, engineVars,
                   controllerVars>>

\* the time to the next timeout or interval tick
NextEvent ==
    LET delays == {tickRemaining} \cup {timer.remaining : timer \in fadeTimers}
    IN  CHOOSE d \in delays : \A e \in delays : d <= e

\* Time passes, up to the next timeout or tick; the callbacks run when due.
Advance ==
    /\ ~effectPending
    /\ NextEvent > 0
    /\ clock < MaxClock
    /\ clock' = clock + NextEvent
    /\ tickRemaining' = tickRemaining - NextEvent
    /\ fadeTimers' = {[timer EXCEPT !.remaining = @ - NextEvent] : timer \in fadeTimers}
    /\ UNCHANGED <<boardSection, departuresPerMode, fadingOutIds, previousDepartureIds,
                   rendered, effectPending, fadedIds, now, rowVars, engineVars,
                   controllerVars>>

\* A refresh cycle commits another result for the stop: the section prop
\* changes and the component renders again.
SectionUpdate(departures) ==
    /\ ~effectPending
    /\ departures # boardSection.departures
    /\ boardSection' = [boardSection EXCEPT !.departures = departures]
    /\ fadedIds' = StillGone(fadedIds, boardSection', now)
    /\ Rerender(boardSection', now, fadingOutIds)
    /\ UNCHANGED <<departuresPerMode, fadingOutIds, previousDepartureIds, fadeTimers,
                   clock, tickRemaining, now, rowVars, engineVars,
                   controllerVars>>

(***************************************************************************)
(* Stop configuration (src/src/lib/utils/storage.ts) and the nearby stops  *)
(* of a discovery.  providerSettings holds the StopConfig lists of the     *)
(* active provider by mode, here tramStops and trainStops.                 *)
(***************************************************************************)
\* the StopConfig the settings modal adds for a stop found by the search
StopConfigOptions ==
    [stop : {[id |-> "s1", name |-> "Cfg St"]}, enabled : {TRUE}, directionIds : {{}}]

\* a faulty variant: the stop is added without looking for it
AddStopForModeUnchecked(providerSettings, mode, config) ==
    [providerSettings EXCEPT ![mode] = Append(@, config)]

\* addStopForMode(settings, mode, config)
AddStopForMode(providerSettings, mode, config) ==
    LET existing == providerSettings[mode]
    IN  IF \E i \in 1..Len(existing) : existing[i].stop.id = config.stop.id
        THEN providerSettings
        ELSE [providerSettings EXCEPT ![mode] = Append(existing, config)]

\* removeStopForMode(settings, mode, stopId)
RemoveStopForMode(providerSettings, mode, stopId) ==
    [providerSettings EXCEPT
        ![mode] = SelectSeq(@, LAMBDA config : config.stop.id # stopId)]

\* toggleStopEnabled(settings, mode, stopId)
ToggleStopEnabled(providerSettings, mode, stopId) ==
    LET existing == providerSettings[mode]
    IN  [providerSettings EXCEPT
            ![mode] = [i \in 1..Len(existing) |->
                          IF existing[i].stop.id = stopId
                          THEN [existing[i] EXCEPT !.enabled = ~existing[i].enabled]
                          ELSE existing[i]]]

\* a faulty variant: the enabled flag is not looked at
GetEnabledStopsAll(providerSettings) ==
    LET OfMode(mode) ==
            LET enabled == providerSettings[mode]
            IN  [i \in 1..Len(enabled) |->
                    [mode |-> mode, id |-> enabled[i].stop.id,
                     name |-> enabled[i].stop.name,
                     directionIds |-> enabled[i].directionIds]]
    IN  OfMode("tram") \o OfMode("train")

\* getEnabledStops(settings): the enabled stops of tramStops, then those
\* of trainStops
GetEnabledStops(providerSettings) ==
    LET OfMode(mode) ==
            LET enabled == SelectSeq(providerSettings[mode], LAMBDA config : config.enabled)
            IN  [i \in 1..Len(enabled) |->
                    [mode |-> mode, id |-> enabled[i].stop.id,
                     name |-> enabled[i].stop.name,
                     directionIds |-> enabled[i].directionIds]]
    IN  OfMode("tram") \o OfMode("train")

\* the settings with the stop lists replaced
WithStops(s, providerSettings) ==
    [s EXCEPT !.providerSettings = providerSettings,
              !.stops = GetEnabledStops(providerSettings)]

RECURSIVE UniqueStops(_)
\* the values of the Map uniqueStops of getNearbyStops, in insertion order:
\* one stop per id, the nearest of those the API listed
UniqueStops(allStops) ==
    IF allStops = <<>> THEN <<>>
    ELSE LET first == Head(allStops)
             same == SelectSeq(allStops, LAMBDA stop : stop.id = first.id)
             nearest == CHOOSE i \in 1..Len(same) :
                            /\ \A j \in 1..Len(same) : same[i].distance <= same[j].distance
                            /\ \A j \in 1..(i - 1) : same[j].distance > same[i].distance
         IN  <<same[nearest]>>
                 \o UniqueStops(SelectSeq(allStops, LAMBDA stop : stop.id # first.id))

RECURSIVE SortByDistance(_)
\* Array.prototype.sort((a, b) => a.distance - b.distance), stable
SortByDistance(stops) ==
    IF stops = <<>> THEN <<>>
    ELSE LET first == CHOOSE i \in 1..Len(stops) :
                         /\ \A j \in 1..Len(stops) : stops[i].distance <= stops[j].distance
                         /\ \A j \in 1..(i - 1) : stops[j].distance > stops[i].distance
         IN  <<stops[first]>>
                 \o SortByDistance(SubSeq(stops, 1, first - 1)
                                       \o SubSeq(stops, first + 1, Len(stops)))

\* a faulty variant: the provider does not sort the stops it found
AllNearbyUnsorted(apiStops, stopsPerMode) ==
    LET OfMode(mode) ==
            LET stops == Slice(UniqueStops(apiStops[mode]), stopsPerMode)
            IN  [i \in 1..Len(stops) |->
                    [mode |-> mode, id |-> stops[i].id, name |-> "Near St",
                     directionIds |-> {}, distance |-> stops[i].distance]]
    IN  OfMode("tram") \o OfMode("train")

\* allNearby of a discovery, as fetchDepartures maps it to EnabledStopInfo:
\* for tram, then train, the first stopsPerMode stops of what /api/nearby
\* answers for the mode, apiStops[mode] being the stops the PTV API listed
AllNearby(apiStops, stopsPerMode) ==
    LET OfMode(mode) ==
            LET stops == Slice(SortByDistance(UniqueStops(apiStops[mode])), stopsPerMode)
            IN  [i \in 1..Len(stops) |->
                    [mode |-> mode, id |-> stops[i].id, name |-> "Near St",
                     directionIds |-> {}, distance |-> stops[i].distance]]
    IN  OfMode("tram") \o OfMode("train")

\* what the PTV API lists near the user: no tram stop, or stop s1 twice,
\* the nearer entry last, and stop s1 as a train stop
ApiStops ==
    [tram : {<<>>, <<[id |-> "s1", distance |-> 2], [id |-> "s1", distance |-> 1]>>},
     train : {<<[id |-> "s1", distance |-> 1]>>}]

\* the nearby-stop sets a discovery can produce, nearbyStopsPerMode being
\* 1 or 2
DiscoveredStops ==
    {AllNearby(apiStops, stopsPerMode) : apiStops \in ApiStops, stopsPerMode \in {1, 2}}

\* the stop lists a user can have saved: no tram stop, one, or two of
\* which either the first is disabled or both are enabled, a stop showing
\* all directions or direction x; and at most one train stop
ProviderSettingsOptions ==
    LET Config(id, enabled, directionIds) ==
            [stop |-> [id |-> id, name |-> "Cfg St"], enabled |-> enabled,
             directionIds |-> directionIds]
    IN  [tram : {<<>>,
                 <<Config("s1", TRUE, {"x"})>>,
                 <<Config("s1", FALSE, {}), Config("s2", TRUE, {"x"})>>,
                 <<Config("s2", TRUE, {"x"}), Config("s1", TRUE, {})>>},
         train : {<<>>, <<Config("s1", TRUE, {})>>}]

\* what the PTV API lists near the user: tram stops s2, s1 and s1 again,
\* nearer, or s1 alone; a train stop nearer than any tram stop, or s3 before
\* the nearer s1
NearbyApiStops ==
    [tram : {<<[id |-> "s2", distance |-> 3], [id |-> "s1", distance |-> 4],
               [id |-> "s1", distance |-> 2]>>,
             <<[id |-> "s1", distance |-> 2]>>},
     train : {<<[id |-> "s1", distance |-> 1]>>,
              <<[id |-> "s3", distance |-> 6], [id |-> "s1", distance |-> 5]>>}]

\* the requests of a cycle of n stops settling in the order they were
\* made, with outcomes from outs
InOrder(n, outs) ==
    {[i \in 1..n |-> [index |-> i, outcome |-> o[i]]] : o \in [1..n -> outs]}

(***************************************************************************)
(* RefreshController (src/src/components/RefreshController.tsx).           *)
(* controller holds document.visibilityState (hidden), the state of the    *)
(* hooks as of the last render (jsEnabled, isVisible, isRefreshing),       *)
(* refreshTimeoutRef.current (0 is null), whether the last run of the      *)
(* refresh effect returned a cleanup, the pending setTimeout callbacks in  *)
(* the order they were armed (each with the isRefreshing its doRefresh     *)
(* closed over) and the number of onRefresh calls in flight.  History:     *)
(* invoked, the step just taken called onRefresh; settled, how the call    *)
(* that settled in the step just taken ended.  Time is counted in ticks,   *)
(* the interval being ControllerInterval ticks; a render and its effects   *)
(* follow the state change that causes them in the same step.              *)
(***************************************************************************)
ControllerInterval == 4
MaxControllerTimers == 3
MaxControllerCalls == 2

\* the component before its effects have run, the page hidden or not
ControllerUnmounted(isHidden) ==
    [hidden |-> isHidden, jsEnabled |-> FALSE, isVisible |-> TRUE, isRefreshing |-> FALSE,
     refreshTimeoutRef |-> 0, hasCleanup |-> FALSE, timers |-> <<>>, calls |-> 0,
     invoked |-> FALSE, settled |-> ""]

\* no RefreshController is rendered
ControllerIdle == controller = ControllerUnmounted(FALSE)

\* clearTimeout(id)
ControllerClear(c, id) ==
    [c EXCEPT !.timers = SelectSeq(@, LAMBDA timer : timer.id # id)]

\* scheduleRefresh of an effect run whose doRefresh closed over
\* isRefreshing = sees: refreshTimeoutRef.current = setTimeout(...)
ControllerSchedule(c, sees) ==
    LET id == CHOOSE i \in 1..(Len(c.timers) + 1) :
                  \A k \in 1..Len(c.timers) : c.timers[k].id # i
    IN  [c EXCEPT
            !.timers = Append(@, [id |-> id, remaining |-> ControllerInterval,
                                  isRefreshing |-> sees]),
            !.refreshTimeoutRef = id]

\* the refresh effect re-runs (jsEnabled, isVisible or doRefresh changed):
\* the cleanup of the previous run, then the body
RefreshEffect(c) ==
    LET c1 == IF c.hasCleanup THEN ControllerClear(c, c.refreshTimeoutRef) ELSE c
    IN  IF ~c1.jsEnabled \/ ~c1.isVisible
        THEN [ControllerClear(c1, c1.refreshTimeoutRef) EXCEPT
                 !.refreshTimeoutRef = 0, !.hasCleanup = FALSE]
        ELSE [ControllerSchedule(c1, c1.isRefreshing) EXCEPT !.hasCleanup = TRUE]

\* the step leaves the controller as c
ControllerCommit(c, invoked, settled) ==
    /\ Len(c.timers) <= MaxControllerTimers /\ c.calls <= MaxControllerCalls
    /\ controller' = [c EXCEPT !.invoked = invoked, !.settled = settled]
    /\ UNCHANGED <<engineVars, now, rowVars, boardVars>>

\* the mount effects: setJsEnabled(true), the visibilitychange listener,
\* and the refresh effect of the render that follows
ControllerMount ==
    /\ ~controller.jsEnabled
    /\ ControllerCommit(RefreshEffect([controller EXCEPT !.jsEnabled = TRUE]), FALSE, "")

\* document.visibilityState flips; the listener of usePageVisibility, once
\* added, sets isVisible
PageVisibilityChange ==
    LET c0 == [controller EXCEPT !.hidden = ~@]
    IN  ControllerCommit(IF c0.jsEnabled /\ c0.isVisible # ~c0.hidden
                         THEN RefreshEffect([c0 EXCEPT !.isVisible = ~c0.hidden])
                         ELSE c0,
                         FALSE, "")

\* the parent renders with another onRefresh: doRefresh changes identity
OnRefreshChange ==
    /\ controller.jsEnabled
    /\ ControllerCommit(RefreshEffect(controller), FALSE, "")

\* a tick passes, no timer being due
ControllerTick ==
    /\ controller.timers # <<>>
    /\ \A k \in 1..Len(controller.timers) : controller.timers[k].remaining > 0
    /\ ControllerCommit([controller EXCEPT
           !.timers = [k \in 1..Len(@) |-> [@[k] EXCEPT !.remaining = @ - 1]]],
           FALSE, "")

\* the timer armed first comes due: `await doRefresh()`, which returns at
\* once when its closure saw isRefreshing, and then scheduleRefresh(); else
\* setIsRefreshing(true) and onRefresh() is in flight
RefreshTimerFire ==
    /\ controller.timers # <<>>
    /\ Head(controller.timers).remaining = 0
    /\ LET timer == Head(controller.timers)
           c0 == [controller EXCEPT !.timers = Tail(@)]
           c1 == [c0 EXCEPT !.calls = @ + 1]
       IN  IF timer.isRefreshing
           THEN ControllerCommit(ControllerSchedule(c0, TRUE), FALSE, "")
           ELSE ControllerCommit(IF c1.isRefreshing THEN c1
                                 ELSE RefreshEffect([c1 EXCEPT !.isRefreshing = TRUE]),
                                 TRUE, "")

\* an onRefresh call settles: setIsRefreshing(false) in the finally block,
\* the timer callback continues with scheduleRefresh(), then the render
RefreshSettle(outcome) ==
    /\ controller.calls > 0
    /\ LET c1 == ControllerSchedule([controller EXCEPT !.calls = @ - 1], FALSE)
       IN  ControllerCommit(IF c1.isRefreshing
                            THEN RefreshEffect([c1 EXCEPT !.isRefreshing = FALSE])
                            ELSE c1,
                            FALSE, outcome)


(***************************************************************************)
(* Specifications                                                          *)
(***************************************************************************)
\* The merge: home mode, the stops edited while cycles are in flight (all
\* stops removed, a direction filter set or dropped), the cycles landing in
\* any order
MergeSettings ==
    {s \in SettingsOptions :
        ~s.nearbyMode /\ s.refreshInterval = 1 /\ Len(s.stops) \in {0, 2}}

\* a body with departures, or a failure status
MergeOutcomes == {o \in Outcomes : o.kind # "network" /\ (o.kind = "ok" => o.departures # <<>>)}

\* the server rendered both stops, or failed the first
Init ==
    /\ InitOver(MergeSettings, ServerSections(<<StopAx, StopB>>), {FALSE}, {TRUE})
    /\ RowIdle
    /\ BoardIdle
    /\ ControllerIdle
    /\ settings.stops = <<StopAx, StopB>>
    /\ initialSections[2].error = ""

Next ==
    \/ \E localSettings \in MergeSettings : Hydrate(localSettings)
    \/ \E new \in MergeSettings : SettingsChange(new)
    \/ \E k \in 1..Len(cycles) :
          \E arrived \in Arrivals(Len(cycles[k].stops), MergeOutcomes) : Land(k, arrived)

Spec == Init /\ [][Next]_vars

\* The merge of the first cycle into the server-rendered sections, the
\* responses including a body without departures
FallbackNext ==
    \/ \E localSettings \in MergeSettings : Hydrate(localSettings)
    \/ \E k \in 1..Len(cycles) :
          \E arrived \in Arrivals(Len(cycles[k].stops),
                                  {o \in Outcomes : o.kind # "network"}) : Land(k, arrived)

FallbackSpec == Init /\ [][FallbackNext]_vars

\* The same for every number of departures per stop the settings offer
SizingInit ==
    /\ InitOver(MergeSettings, ServerSections(<<StopAx, StopB>>), {FALSE}, {TRUE})
    /\ RowIdle
    /\ settings.stops = <<StopAx, StopB>>
    /\ initialSections[2].error = ""
    /\ departuresPerMode \in 1..MaxDisplayCount
    /\ boardSection = [departures |-> <<>>, groupByDirection |-> FALSE,
                       isLoading |-> FALSE, error |-> ""]
    /\ fadingOutIds = {}
    /\ previousDepartureIds = {}
    /\ fadeTimers = {}
    /\ clock = 0
    /\ tickRemaining = 0
    /\ rendered = [groups |-> <<>>, flat |-> <<>>]
    /\ effectPending = FALSE
    /\ fadedIds = {}
    /\ ControllerIdle

SizingSpec == SizingInit /\ [][FallbackNext]_vars

\* The scheduler in home mode: one stop, the page hidden and shown, the
\* settings saved again, the component unmounted
SchedSettings ==
    {s \in SettingsOptions : ~s.nearbyMode /\ s.stops = <<StopAx>>}

SchedOutcomes ==
    {[kind |-> "ok", name |-> "Api St", departures |-> <<Dep1>>],
     [kind |-> "http", name |-> "", departures |-> <<>>]}

SchedInit ==
    /\ InitOver(SchedSettings, ServerSections(<<StopAx>>), {FALSE}, {TRUE})
    /\ RowIdle
    /\ BoardIdle
    /\ ControllerIdle

SchedNext ==
    \/ \E localSettings \in SchedSettings : Hydrate(localSettings)
    \/ \E new \in SchedSettings : SettingsChange(new)
    \/ TickTracked
    \/ \E t \in timers : TimerFire(t)
    \/ \E k \in 1..Len(cycles) :
          \E arrived \in Arrivals(Len(cycles[k].stops), SchedOutcomes) : Land(k, arrived)
    \/ VisibilityChange
    \/ PageShow
    \/ Unmount

SchedSpec == SchedInit /\ [][SchedNext]_vars

\* The scheduler in nearby mode: discoveries in flight, landing or failing
NearbySettings ==
    {s \in SettingsOptions : s.nearbyMode /\ s.refreshInterval = 1 /\ s.stops = <<StopAx>>}

NearbyInit ==
    /\ InitOver(NearbySettings, ServerSections(<<StopAx>>), {FALSE}, {TRUE})
    /\ RowIdle
    /\ BoardIdle
    /\ ControllerIdle
    /\ initialSections[1].error = ""

NearbyNext ==
    \/ \E localSettings \in NearbySettings : Hydrate(localSettings)
    \/ \E new \in NearbySettings : SettingsChange(new)
    \/ Tick
    \/ \E t \in timers : TimerFire(t)
    \/ \E k \in 1..Len(cycles) :
          \E arrived \in Arrivals(Len(cycles[k].stops), SchedOutcomes) : Land(k, arrived)
    \/ VisibilityChange
    \/ PageShow
    \/ \E allNearby \in NearbyResults : DiscoveryLand(allNearby)
    \/ DiscoveryError

NearbySpec == NearbyInit /\ [][NearbyNext]_vars

\* The same, with what the browser guarantees: time passes, a due timer
\* fires, every request and every position lookup settles.  What the user
\* does (settings, hiding and showing the page) is left free.
NearbyFairSpec ==
    /\ NearbySpec
    /\ WF_vars(Tick)
    /\ WF_vars(\E t \in timers : TimerFire(t))
    /\ WF_vars(\E k \in 1..Len(cycles) :
                  \E arrived \in Arrivals(Len(cycles[k].stops), SchedOutcomes) : Land(k, arrived))
    /\ WF_vars(DiscoveryError \/ \E allNearby \in NearbyResults : DiscoveryLand(allNearby))

\* A second passes on the hydrated page and the clock interval comes due:
\* setNow(new Date()).  A page in the background has its timers throttled
\* or suspended by the browser, so the tick may not happen there.
ClockPass ==
    /\ jsEnabled
    /\ clock < MaxClock
    /\ clock' = clock + ClockInterval
    /\ now' \in IF hidden THEN {now, clock'} ELSE {clock'}
    /\ ev' = NoEvent
    /\ UNCHANGED <<jsEnabled, mounted, settings, nearbyStops, isLoadingNearby, sections,
                   initialSections, hidden, geolocation, isVisible, timeSinceLastFetch,
                   timeSinceLocationFetch, refreshTimeoutRef, timers, cycles,
                   discoveries, timeSinceSuccess, rowVars, boardSection,
                   departuresPerMode, fadingOutIds, previousDepartureIds, fadeTimers,
                   tickRemaining, rendered, effectPending, fadedIds, controllerVars>>

\* The page in the background and back: the scheduler in home mode with the
\* clock of the rows, the stop removed and configured again
ResumeSettings ==
    {s \in SettingsOptions :
        ~s.nearbyMode /\ s.refreshInterval = 1 /\ s.stops \in {<<>>, <<StopAx>>}}

ResumeInit ==
    /\ InitOver(ResumeSettings, ServerSections(<<StopAx>>), {FALSE}, {TRUE})
    /\ RowIdle
    /\ BoardIdle
    /\ ControllerIdle

ResumeNext ==
    \/ \E localSettings \in ResumeSettings : Hydrate(localSettings)
    \/ \E new \in ResumeSettings : SettingsChange(new)
    \/ Tick
    \/ ClockPass
    \/ \E t \in timers : TimerFire(t)
    \/ \E k \in 1..Len(cycles) :
          \E arrived \in Arrivals(Len(cycles[k].stops), SchedOutcomes) : Land(k, arrived)
    \/ VisibilityChange

ResumeSpec == ResumeInit /\ [][ResumeNext]_vars

\* The resolver: the page of a user with saved stops, stops disabled and
\* enabled again, nearby mode chosen and left, discoveries and cycles
\* landing
ResolverInit ==
    /\ InitOver({WithStops([nearbyMode |-> FALSE, refreshInterval |-> 1, stops |-> <<>>,
                            providerSettings |-> providerSettings,
                            nearbyStopsPerMode |-> stopsPerMode], providerSettings) :
                     providerSettings \in ProviderSettingsOptions, stopsPerMode \in {1, 2}},
                UNION {ServerSections(GetEnabledStops(providerSettings)) :
                          providerSettings \in ProviderSettingsOptions},
                {FALSE}, {TRUE})
    /\ RowIdle
    /\ BoardIdle
    /\ ControllerIdle
    /\ initialSections \in ServerSections(settings.stops)
    /\ \A i \in 1..Len(initialSections) : initialSections[i].error = ""

ResolverNext ==
    \/ Hydrate(settings)
    \/ \E mode \in {"tram", "train"}, stopId \in {"s1", "s2"} :
          /\ \E i \in 1..Len(settings.providerSettings[mode]) :
                settings.providerSettings[mode][i].stop.id = stopId
          /\ SettingsChange(WithStops(settings,
                  ToggleStopEnabled(settings.providerSettings, mode, stopId)))
    \/ SettingsChange([settings EXCEPT !.nearbyMode = ~@])
    \/ \E k \in 1..Len(cycles) :
          \E arrived \in InOrder(Len(cycles[k].stops), {o \in SchedOutcomes : o.kind = "ok"}) : Land(k, arrived)
    \/ \E apiStops \in NearbyApiStops :
          DiscoveryLand(AllNearby(apiStops, settings.nearbyStopsPerMode))

ResolverSpec == ResolverInit /\ [][ResolverNext]_vars

\* The RefreshController of a page opened in the foreground or in the
\* background, the page hidden and shown, its parent rendering again; the
\* refresh engine stays as the server rendered an empty page
ControllerInit ==
    /\ InitOver({[nearbyMode |-> FALSE, refreshInterval |-> 1, stops |-> <<>>]},
                {<<>>}, {FALSE}, {TRUE})
    /\ RowIdle
    /\ BoardIdle
    /\ controller \in {ControllerUnmounted(isHidden) : isHidden \in BOOLEAN}

ControllerNext ==
    \/ ControllerMount
    \/ PageVisibilityChange
    \/ OnRefreshChange
    \/ ControllerTick
    \/ RefreshTimerFire
    \/ \E outcome \in {"resolved", "rejected"} : RefreshSettle(outcome)

ControllerSpec == ControllerInit /\ [][ControllerNext]_vars


\* The rows' clock: a departure rendered at an instant, then at later ones;
\* the engine stays as the server rendered an empty page
RowSpecInit ==
    /\ InitOver({[nearbyMode |-> FALSE, refreshInterval |-> 1, stops |-> <<>>]},
                {<<>>}, {FALSE}, {TRUE})
    /\ RowInit
    /\ BoardIdle
    /\ ControllerIdle

RowNext == \E t \in Instants : ClockTick(t)

RowSpec == RowSpecInit /\ [][RowNext]_vars

\* One section of the board as the clock runs, the fade-out timeouts come
\* due and refresh cycles commit other results for the stop
BoardSpecInit ==
    /\ InitOver({[nearbyMode |-> FALSE, refreshInterval |-> 1, stops |-> <<>>]},
                {<<>>}, {FALSE}, {TRUE})
    /\ departure = [scheduledTime |-> 0, estimatedTime |-> <<>>]
    /\ relative = ""
    /\ relativeBefore = ""
    /\ BoardInit
    /\ ControllerIdle

BoardNext ==
    \/ RunEffect
    \/ \E timer \in fadeTimers : FadeTimeout(timer)
    \/ BoardTick
    \/ Advance
    \/ \E departures \in BoardLists : SectionUpdate(departures)

BoardSpec == BoardSpecInit /\ [][BoardNext]_vars

\* The stops edited in the settings modal (added, removed, disabled and
\* enabled again), home and nearby mode chosen, discoveries and cycles
\* landing
StopsInit ==
    /\ InitOver({[nearbyMode |-> FALSE, refreshInterval |-> 1, stops |-> <<>>,
                  providerSettings |-> [tram |-> <<>>, train |-> <<>>]]},
                {<<>>}, {FALSE}, {TRUE})
    /\ RowIdle
    /\ BoardIdle
    /\ ControllerIdle

StopsNext ==
    \/ Hydrate(settings)
    \/ \E mode \in {"tram", "train"} :
          \/ \E config \in StopConfigOptions :
                SettingsChange(WithStops(settings,
                    AddStopForMode(settings.providerSettings, mode, config)))
          \/ SettingsChange(WithStops(settings,
                  RemoveStopForMode(settings.providerSettings, mode, "s1")))
          \/ SettingsChange(WithStops(settings,
                  ToggleStopEnabled(settings.providerSettings, mode, "s1")))
    \/ SettingsChange([settings EXCEPT !.nearbyMode = ~@])
    \/ \E k \in 1..Len(cycles) :
          \E arrived \in InOrder(Len(cycles[k].stops), SchedOutcomes) : Land(k, arrived)
    \/ \E allNearby \in DiscoveredStops : DiscoveryLand(allNearby)

StopsSpec == StopsInit /\ [][StopsNext]_vars

(***************************************************************************)
(* Properties of the merge (under Spec)                                    *)
(***************************************************************************)
\* a cycle landed and committed in the step that set event e
Landed(e) == e.arrived # <<>>

\* the response, in the arrivals of a landing, to the request of index i
ResponseOf(arrived, i) ==
    (CHOOSE a \in {arrived[j] : j \in 1..Len(arrived)} : a.index = i).outcome

\* the fresh results of the landing of event e, one per stop of the cycle
BatchOf(e) == [i \in 1..Len(e.stops) |-> NewSection(e.stops[i], ResponseOf(e.arrived, i))]

\* the index in secs of the section of the tuple of sec, 0 when there is none
IndexOf(secs, sec) == FindSection(secs, sec.stopId, sec.mode)

\* secs holds a usable section for the tuple of sec
HasUsable(secs, sec) == IndexOf(secs, sec) # 0 /\ Usable(secs[IndexOf(secs, sec)])

\* C1 (never-regress): in every step, a tuple whose committed section holds at
\* least one departure and no error, and which still has a section after
\* the step, still has a section with at least one departure and no error.
NeverRegress ==
    [][\A i \in 1..Len(sections) : \A j \in 1..Len(sections') :
          (/\ sections[i].mode = sections'[j].mode
           /\ sections[i].stopId = sections'[j].stopId
           /\ Usable(sections[i]))
          => Usable(sections'[j])]_vars

\* C1 witness: a cycle has landed with an HTTP failure for a tuple whose
\* section was usable, the section is still usable, and another cycle is
\* still in flight.
NeverRegressCase ==
    /\ cycles # <<>>
    /\ \E a \in 1..Len(ev.arrived) :
          /\ ev.arrived[a].outcome.kind = "http"
          /\ ev.arrived[a].index \in ev.stale
          /\ Usable(sections[ev.arrived[a].index])

\* C2 (stale-preservation, as claimed): when a cycle lands with a failure for
\* a tuple whose committed section is usable, the section committed for the
\* tuple equals the previous one in every field, isLoading being false.
StalePreservedInEveryField ==
    [][Landed(ev') =>
          \A i \in 1..Len(ev'.stops) :
             LET new == BatchOf(ev')[i]
             IN  (new.error # "" /\ HasUsable(sections, new))
                 => sections'[i] = [sections[IndexOf(sections, new)] EXCEPT !.isLoading = FALSE]]_vars

\* C3 (merge freshness): when a cycle lands, every fresh result with at
\* least one departure (after the direction filter) and no error is
\* committed exactly as it is: nothing of the previous section survives.
MergeFreshness ==
    [][Landed(ev') =>
          \A i \in 1..Len(ev'.stops) :
             Usable(BatchOf(ev')[i]) => sections'[i] = BatchOf(ev')[i]]_vars

\* C3 witness: a fresh result has replaced a usable section with other
\* departures.
MergeFreshnessCase ==
    \E i \in ev.replaced : Usable(BatchOf(ev)[i]) /\ sections[i] = BatchOf(ev)[i]

\* the tuple of a section
PairOf(sec) == <<sec.mode, sec.stopId>>

\* C5 (fan-out independence): when a cycle of two stops lands, one with a
\* usable fresh result and the other with a failure, the first commits its
\* fresh result and the second keeps the departures of its usable committed
\* section (or, for want of one, shows the failure), whatever the order in
\* which the two responses arrived.
FanOutIndependence ==
    [][(Landed(ev') /\ Len(ev'.stops) = 2) =>
          \A a, b \in 1..2 :
             LET batch == BatchOf(ev')
             IN  (Usable(batch[a]) /\ batch[b].error # "")
                 => /\ Len(sections') = 2
                    /\ sections'[a] = batch[a]
                    /\ IF HasUsable(sections, batch[b])
                       THEN /\ sections'[b].departures =
                                  sections[IndexOf(sections, batch[b])].departures
                            /\ sections'[b].error = ""
                       ELSE sections'[b] = batch[b]]_vars

\* C5 witness: the failure of the second stop arrived before the success of
\* the first; the first shows its fresh result, the second its kept section.
FanOutCase ==
    /\ Len(ev.arrived) = 2
    /\ ev.arrived[1].index = 2 /\ ev.arrived[1].outcome.kind = "http"
    /\ Usable(BatchOf(ev)[1]) /\ sections[1] = BatchOf(ev)[1]
    /\ 2 \in ev.stale /\ Usable(sections[2])

\* C6 (commit against committed state): when a cycle lands, a result that is
\* not usable is decided against the sections committed at that moment: a
\* usable committed section keeps its departures, else the result is
\* committed as it is.  In particular a failure for a tuple that a
\* later-started cycle has meanwhile committed a usable success for keeps
\* that cycle's departures.
CommitAgainstCommitted ==
    [][Landed(ev') =>
          \A i \in 1..Len(ev'.stops) :
             LET new == BatchOf(ev')[i]
             IN  /\ ~Usable(new) =>
                       IF HasUsable(sections, new)
                       THEN /\ sections'[i].departures =
                                  sections[IndexOf(sections, new)].departures
                            /\ sections'[i].error = ""
                       ELSE sections'[i] = new
                 /\ (new.error # "" /\ PairOf(new) \in ev'.overtaken) =>
                       /\ HasUsable(sections, new)
                       /\ sections'[i].departures =
                             sections[IndexOf(sections, new)].departures]_vars

\* C6 witness: a cycle has landed with a failure for a tuple overtaken by a
\* later-started cycle, and the tuple's section is usable.
CommitAgainstCommittedCase ==
    \E i \in ev.stale :
       /\ BatchOf(ev)[i].error # ""
       /\ PairOf(BatchOf(ev)[i]) \in ev.overtaken
       /\ Usable(sections[i])

\* C7 (as claimed): when a cycle lands with a usable fresh result for a tuple
\* that a later-started cycle has already committed a usable success for, the
\* committed departures stay those of the later-started cycle.
LaterStartedWins ==
    [][Landed(ev') =>
          \A i \in 1..Len(ev'.stops) :
             LET new == BatchOf(ev')[i]
             IN  (Usable(new) /\ PairOf(new) \in ev'.overtaken)
                 => sections'[i].departures =
                       sections[IndexOf(sections, new)].departures]_vars

\* C7 (amended): when a cycle lands with a usable fresh result for a tuple
\* that a later-started cycle has already committed a usable success for, the
\* committed departures become those of the cycle that has just landed: of
\* two overlapping cycles the one that lands last decides.
LastLandedWins ==
    [][Landed(ev') =>
          \A i \in 1..Len(ev'.stops) :
             LET new == BatchOf(ev')[i]
             IN  (Usable(new) /\ PairOf(new) \in ev'.overtaken)
                 => sections'[i].departures = new.departures]_vars

\* C7 witness: the earlier-started cycle has landed last with departures
\* other than those the later-started cycle had committed, and they show.
LastLandedWinsCase ==
    \E i \in ev.replaced :
       /\ PairOf(BatchOf(ev)[i]) \in ev.overtaken
       /\ sections[i].departures = BatchOf(ev)[i].departures

(***************************************************************************)
(* Properties of the scheduler (under SchedSpec and NearbySpec)            *)
(***************************************************************************)
\* C4 (battery discipline, as claimed): once the page is hydrated, no step
\* that leaves it hidden starts a fetch cycle.
NoFetchWhileHidden ==
    [][(jsEnabled /\ hidden') => Len(cycles') <= Len(cycles)]_vars

\* C8 (timer suspended while hidden, as claimed): once the page is hydrated,
\* the step that hides it leaves no refresh timer pending, and no step taken
\* while it is hidden arms one.
NoTimerWhileHidden ==
    [][(jsEnabled /\ hidden') =>
          /\ ~hidden => timers' = {}
          /\ (hidden /\ timers = {}) => timers' = {}]_vars

\* C9 (refresh on resume, as claimed): when visibility is regained in home
\* mode, a fetch cycle is started exactly if the time since the last
\* successful cycle exceeds the refresh interval, and the timer is re-armed.
ResumeComparesLastSuccess ==
    [][("resume" \in ev'.facts /\ ~settings.nearbyMode) =>
          /\ Len(cycles') > Len(cycles) <=> timeSinceSuccess > settings.refreshInterval
          /\ timers' # {}]_vars

\* C10 (location staleness on resume): when visibility is regained in nearby
\* mode, a location older than the threshold starts one discovery and no
\* fetch cycle; otherwise no discovery starts, and a fetch cycle starts
\* exactly if the data is older than the refresh interval (and there are
\* nearby stops to fetch).
LocationStalenessOnResume ==
    [][("resume" \in ev'.facts /\ settings.nearbyMode) =>
          IF timeSinceLocationFetch > LOCATION_STALE_THRESHOLD
          THEN discoveries' = discoveries + 1 /\ cycles' = cycles
          ELSE /\ discoveries' = discoveries
               /\ Len(cycles') > Len(cycles)
                     <=> (timeSinceLastFetch > settings.refreshInterval /\ nearbyStops # <<>>)]_vars

\* C10 witness: visibility was regained in nearby mode with nearby stops on
\* show, location and data both stale: a discovery was started, no cycle.
LocationStalenessCase ==
    /\ settings.nearbyMode /\ nearbyStops # <<>>
    /\ {"resume", "locationStale", "dataStale", "discovering"} \subseteq ev.facts
    /\ "started" \notin ev.facts

(***************************************************************************)
(* Properties of the scheduler's start, timer and teardown                 *)
(***************************************************************************)
\* C11: the step in which jsEnabled becomes true starts exactly one fetch
\* cycle, for the active stops (getEnabledStops(settings) in home mode, the
\* nearby stops in nearby mode, none being known yet there: the location
\* detection is started instead), and leaves exactly one refresh timer
\* pending, due after settings.refreshInterval.
StartTriggersCycleAndTimer ==
    [][(~jsEnabled /\ jsEnabled') =>
          LET targets == FetchTargets(settings', nearbyStops')
          IN  /\ cycles = <<>>
              /\ Len(cycles') = IF targets # <<>> THEN 1 ELSE 0
              /\ targets # <<>> => cycles'[1].stops = targets
              /\ (settings'.nearbyMode /\ geolocation) => discoveries' = 1
              /\ Cardinality(timers') = 1
              /\ \A t \in timers' :
                     /\ t.id = refreshTimeoutRef'
                     /\ t.remaining = settings'.refreshInterval]_vars

\* C11 witness: the scheduler has just started with the two-minute
\* interval, one cycle for the configured stop in flight and the timer armed.
StartCase ==
    /\ "start" \in ev.facts
    /\ settings.refreshInterval = 2
    /\ Len(cycles) = 1 /\ cycles[1].stops = settings.stops
    /\ \E t \in timers : t.remaining = 2

\* the cycles in flight that a timer callback started
TimerCycles == {k \in 1..Len(cycles) : cycles[k].trigger = "timer"}

\* C12 (as claimed): while a timer-triggered cycle is in flight no refresh
\* timer is pending and no second timer-triggered cycle is in flight.
TimerCyclesNeverOverlap ==
    /\ Cardinality(TimerCycles) <= 1
    /\ TimerCycles # {} => timers = {}

\* the timer refreshTimeoutRef.current names is pending with its full delay
\* ahead, in the state after the step
JustArmed ==
    \E t \in timers' :
        /\ t.id = refreshTimeoutRef'
        /\ t.remaining = IF t.owner.live THEN settings'.refreshInterval
                          ELSE t.owner.refreshInterval

\* C12 (amended): a timer callback that finds the page visible and has stops
\* to fetch starts exactly one fetch cycle and arms no timer itself; the
\* timer is armed again in the step in which that cycle settles.  A callback
\* that finds the page hidden, or has no stop to fetch, starts no cycle and
\* re-arms at once.
TimerFireRunsCycleThenRearms ==
    [][/\ ("fireVisible" \in ev'.facts /\ "fireNoStops" \notin ev'.facts) =>
             /\ Len(cycles') = Len(cycles) + 1
             /\ cycles'[Len(cycles')].trigger = "timer"
             /\ timers' \subseteq timers
       /\ ("fire" \in ev'.facts /\ ~("fireVisible" \in ev'.facts /\ "fireNoStops" \notin ev'.facts)) =>
             /\ Len(cycles') = Len(cycles)
             /\ JustArmed
       /\ "timerCycle" \in ev'.facts =>
             /\ Len(cycles') = Len(cycles) - 1
             /\ JustArmed]_vars

\* C12 witness: a timer callback has just started a cycle on a visible page
\* and no timer is pending.
TimerFireCase ==
    /\ "fireVisible" \in ev.facts
    /\ ~hidden /\ TimerCycles # {} /\ timers = {}

\* C13: at most one refresh timer is pending, and it is the one
\* refreshTimeoutRef.current names: every arming clears that one first.
SingleTimer ==
    /\ Cardinality(timers) <= 1
    /\ \A t \in timers : t.id = refreshTimeoutRef

\* C13 witness: handleVisibilityChange ran on a visible page whose data were
\* fresh and whose timer was pending (no cycle in flight that could have
\* consumed it), and one timer is pending.
SingleTimerCase ==
    /\ "resume" \in ev.facts /\ "dataStale" \notin ev.facts
    /\ cycles = <<>> /\ isVisible
    /\ Cardinality(timers) = 1

\* C14 (as claimed): no timer armed by a torn-down run of the auto-refresh
\* effect is pending: every pending timer belongs to the live run of a
\* mounted component.
NoTimerOfTornDownRun ==
    \A t \in timers : t.owner.live /\ mounted

(***************************************************************************)
(* Recovery (under NearbyFairSpec)                                         *)
(***************************************************************************)
\* C15 (as claimed): after a location error, on a page that stays visible
\* and whose settings are left alone, a further fetch cycle is eventually
\* triggered, or at least the location capture it needs is tried again.
RecoversAfterLocationError ==
    [](("locationError" \in ev.facts /\ ~hidden) =>
          <>(cycles # <<>> \/ discoveries > 0 \/ hidden \/ "settings" \in ev.facts))

(***************************************************************************)
(* Error containment (under Spec)                                          *)
(***************************************************************************)
\* C16 (error containment): a landing cycle commits exactly one section per
\* stop of the cycle, in the order of the stops, whatever failed; and for
\* every stop whose request failed, the section committed for each other
\* stop is the one that would have been committed had that request come
\* back with any other outcome (a success, another kind of failure).
ErrorContainment ==
    [][Landed(ev') =>
          LET stops == ev'.stops
              n == Len(stops)
              results == [i \in 1..n |-> ResponseOf(ev'.arrived, i)]
              Alt(i, o) == [k \in 1..n |->
                               NewSection(stops[k], IF k = i THEN o ELSE results[k])]
          IN  /\ Len(sections') = n
              /\ \A i \in 1..n : /\ sections'[i].mode = stops[i].mode
                                  /\ sections'[i].stopId = stops[i].id
              /\ \A i \in 1..n : results[i].kind # "ok" =>
                     \A o \in Outcomes : \A j \in (1..n) \ {i} :
                        MergeSections(sections, Alt(i, o))[j] = sections'[j]]_vars

\* C16 witness: the request of the first stop failed and the second stop
\* committed its fresh departures.
ErrorContainmentCase ==
    /\ Len(ev.arrived) = 2
    /\ ResponseOf(ev.arrived, 1).kind # "ok"
    /\ Len(sections) = 2 /\ 2 \in ev.replaced
    /\ sections[2] = BatchOf(ev)[2]

(***************************************************************************)
(* Properties of the classification (under RowSpec)                        *)
(***************************************************************************)
\* C17 (classification monotonicity): when the clock advances and the row
\* is rendered again for the same departure, a departure that was gone is
\* gone, and one that was departing now is not upcoming.
ClassificationMonotone ==
    [][(now' > now /\ departure' = departure) =>
          /\ relative = "gone" => relative' = "gone"
          /\ relative = "departing-now" => relative' # "upcoming"]_vars

\* C17 witness: a departure rendered as departing now is rendered as gone
\* at a later instant.
ClassificationMonotoneCase ==
    relativeBefore = "departing-now" /\ relative = "gone"

\* C18 (as claimed): a departure is gone exactly when its effective time is
\* before now, departing now exactly when its effective time is not before
\* now and within the clock minute of now, upcoming otherwise.
ClassifiedByCurrentMinute ==
    LET effective == EffectiveTime(departure.scheduledTime, departure.estimatedTime)
        nextMinute == (now \div MsPerMinute + 1) * MsPerMinute
    IN  relative # "" =>
           /\ relative = "gone" <=> effective < now
           /\ relative = "departing-now" <=> (effective >= now /\ effective < nextMinute)
           /\ relative = "upcoming" <=> effective >= nextMinute


(***************************************************************************)
(* Properties of the board (under BoardSpec)                               *)
(***************************************************************************)
\* the departures of the section that are 'gone' at the rendered instant
GoneIds == Ids(GoneDepartures(boardSection, now))

\* the first departuresPerMode upcoming departures of the flat display, or
\* of each direction of the grouped one
LeadingUpcomingIds ==
    LET upcoming == UpcomingDepartures(boardSection, now)
        Before(i) ==
            {j \in 1..(i - 1) :
                boardSection.groupByDirection
                    => DirectionId(upcoming[j]) = DirectionId(upcoming[i])}
    IN  {upcoming[i].id : i \in {k \in 1..Len(upcoming) :
                                     Cardinality(Before(k)) < departuresPerMode}}

\* C19 (fade window bound): a gone departure is in the rendered output only
\* while it is in the fading set, and every departure of the fading set has
\* a timeout pending that takes it out within FADE_OUT_DURATION of the
\* render that found it gone; once its timeout has fired, a departure that
\* remains gone is neither rendered nor fading again; the leading upcoming
\* departures are rendered throughout.
FadeWindowBound ==
    /\ RenderedIds(rendered) \cap GoneIds \subseteq fadingOutIds
    /\ \A id \in fadingOutIds :
          \E timer \in fadeTimers :
              id \in timer.ids /\ timer.remaining <= FADE_OUT_DURATION
    /\ fadedIds \cap GoneIds \cap (fadingOutIds \cup RenderedIds(rendered)) = {}
    /\ LeadingUpcomingIds \subseteq RenderedIds(rendered)

\* C19 witness: a departure has faded out and is still in the data, gone,
\* while another is fading and a third is rendered as upcoming
FadeWindowCase ==
    /\ fadedIds \cap GoneIds # {}
    /\ fadingOutIds \cap GoneIds \cap RenderedIds(rendered) # {}
    /\ LeadingUpcomingIds # {}

\* C20 (fading departures stay rendered): every gone departure of the fading
\* set is in the rendered output, marked as fading out, in the grouped and
\* in the flat display.
FadingStaysRendered ==
    \A id \in fadingOutIds \cap GoneIds :
        \/ \E i \in 1..Len(rendered.flat) :
              rendered.flat[i] = [id |-> id, isFadingOut |-> TRUE]
        \/ \E k \in 1..Len(rendered.groups) :
              \E i \in 1..Len(rendered.groups[k].rows) :
                  rendered.groups[k].rows[i] = [id |-> id, isFadingOut |-> TRUE]


\* the rows of the last render, of the flat display and of every bucket
RenderedRows ==
    {rendered.flat[i] : i \in 1..Len(rendered.flat)}
        \cup UNION {{rendered.groups[k].rows[i] : i \in 1..Len(rendered.groups[k].rows)} :
                       k \in 1..Len(rendered.groups)}

\* the departure of the section a row is rendered for
RowDeparture(row) ==
    CHOOSE d \in {boardSection.departures[i] : i \in 1..Len(boardSection.departures)} :
        d.id = row.id

\* the effective time a row is rendered for
RowTime(row) == EffectiveTime(RowDeparture(row).scheduledTime, RowDeparture(row).estimatedTime)

\* the rows of a sequence of rows whose departure is not gone at the
\* rendered instant
UpcomingRows(rows) ==
    SelectSeq(rows, LAMBDA row : Classify(RowDeparture(row), now) # "gone")

\* C21 (display validity): every row of a render is the row of a departure
\* of the section that is upcoming or departing now at the render's instant,
\* or of one that is in the fading set and rendered as fading out; no other
\* gone departure has a row.
DisplayValidity ==
    \A row \in RenderedRows :
        /\ row.id \in Ids(boardSection.departures)
        /\ \/ Classify(RowDeparture(row), now) # "gone"
           \/ row.id \in fadingOutIds /\ row.isFadingOut

\* C21 witness: two clock ticks after the data arrived, the section holds a
\* gone departure that is not fading and has no row, next to rendered rows
DisplayValidityCase ==
    /\ now >= ClockInterval + ClockInterval
    /\ GoneIds \ fadingOutIds # {}
    /\ (GoneIds \ fadingOutIds) \cap RenderedIds(rendered) = {}
    /\ RenderedRows # {}

\* C22 (per-direction cap): every bucket of the grouped display holds the
\* rows of one direction, at most departuresPerMode of them for departures
\* that are upcoming or departing now.
PerDirectionCap ==
    \A k \in 1..Len(rendered.groups) :
        /\ \A i \in 1..Len(rendered.groups[k].rows) :
              DirectionId(RowDeparture(rendered.groups[k].rows[i]))
                  = rendered.groups[k].directionId
        /\ Len(UpcomingRows(rendered.groups[k].rows)) <= departuresPerMode

\* C23 (bucket ordering): the buckets of the grouped display are in
\* ascending order of the effective time of their earliest row.
BucketOrdering ==
    \A k \in 1..(Len(rendered.groups) - 1) :
        \E i \in 1..Len(rendered.groups[k].rows) :
            \A j \in 1..Len(rendered.groups[k + 1].rows) :
                RowTime(rendered.groups[k].rows[i])
                    <= RowTime(rendered.groups[k + 1].rows[j])

\* C24 (flat display): the rows of the flat display for departures that are
\* upcoming or departing now are in ascending order of effective time and
\* number at most departuresPerMode.
FlatDisplay ==
    LET rows == UpcomingRows(rendered.flat)
    IN  /\ \A i \in 1..(Len(rows) - 1) : RowTime(rows[i]) <= RowTime(rows[i + 1])
        /\ Len(rows) <= departuresPerMode


(***************************************************************************)
(* Properties of the sections and the stops (under StopsSpec)              *)
(***************************************************************************)
\* the (mode, stopId) pairs of a list of sections
SectionTuples(secs) == [i \in 1..Len(secs) |-> <<secs[i].mode, secs[i].stopId>>]

\* C25 (section uniqueness): no two committed sections have the same mode
\* and stopId.
SectionUniqueness ==
    \A i, j \in 1..Len(sections) :
        SectionTuples(sections)[i] = SectionTuples(sections)[j] => i = j

\* C25 witness: two sections of the same stop id under two modes are
\* committed, in home mode after the stop was added twice over, or in
\* nearby mode
SectionUniquenessCase ==
    /\ Len(sections) >= 2
    /\ sections[1].stopId = sections[2].stopId
    /\ "settings" \in ev.facts \/ settings.nearbyMode

\* C26 (inactive tuples are discarded): once the committed sections are
\* those of the active tuples, one each, they remain so in every step that
\* leaves the active tuples alone.
InactiveDiscarded ==
    [][LET StopTuples(stops) == [i \in 1..Len(stops) |-> <<stops[i].mode, stops[i].id>>]
       IN  (/\ SectionTuples(sections) = StopTuples(FetchTargets(settings, nearbyStops))
            /\ FetchTargets(settings', nearbyStops') = FetchTargets(settings, nearbyStops))
           => SectionTuples(sections') =
                  StopTuples(FetchTargets(settings', nearbyStops'))]_vars


(***************************************************************************)
(* More properties of the merge (under FallbackSpec and Spec)              *)
(***************************************************************************)
\* C27 (empty success falls back to stale data): when a cycle lands with a
\* successful response that leaves no departure for a tuple whose committed
\* section is usable, the section committed for the tuple has the previous
\* departures, no error, isLoading false, and the stop name of the
\* response when the response carried one.
EmptySuccessFallsBack ==
    [][Landed(ev') =>
          \A i \in 1..Len(ev'.stops) :
             LET out == ResponseOf(ev'.arrived, i)
                 new == BatchOf(ev')[i]
             IN  (out.kind = "ok" /\ new.departures = <<>> /\ HasUsable(sections, new))
                 => /\ sections'[i].departures =
                           sections[IndexOf(sections, new)].departures
                    /\ sections'[i].error = ""
                    /\ sections'[i].isLoading = FALSE
                    /\ out.name # "" => sections'[i].stopName = out.name]_vars

\* C27 witness: an empty success carrying a stop name has landed on a
\* usable section, which shows its departures under the new name.
EmptySuccessCase ==
    \E a \in 1..Len(ev.arrived) :
        LET out == ev.arrived[a].outcome
            i == ev.arrived[a].index
        IN  /\ out.kind = "ok" /\ out.departures = <<>> /\ out.name # ""
            /\ i \in ev.stale
            /\ Usable(sections[i]) /\ sections[i].stopName = out.name

\* C28 (no usable previous data): when a cycle lands with a failure or an
\* empty success for a tuple of which no committed section has a departure
\* and no error, the section committed for the tuple is the fresh result
\* as it is, its error included.
NoUsablePrevious ==
    [][Landed(ev') =>
          \A i \in 1..Len(ev'.stops) :
             LET new == BatchOf(ev')[i]
             IN  (/\ ~Usable(new)
                  /\ \A p \in 1..Len(sections) :
                        PairOf(sections[p]) = PairOf(new) => ~Usable(sections[p]))
                 => sections'[i] = new]_vars

\* C28 witness: a failure has landed for a tuple whose section was not
\* usable while the section of the same stop id under the other mode is;
\* the failure is shown.
NoUsablePreviousCase ==
    \E i \in 1..Len(ev.stops) : \E j \in 1..Len(sections) :
        /\ Landed(ev) /\ i \notin ev.stale
        /\ BatchOf(ev)[i].error # "" /\ sections[i] = BatchOf(ev)[i]
        /\ sections[j].stopId = sections[i].stopId
        /\ sections[j].mode # sections[i].mode
        /\ j \in ev.stale /\ Usable(sections[j])

\* C29 (the merge is idempotent): merging the batch a landed cycle has
\* just committed into the committed sections once more changes nothing.
MergeIdempotent ==
    [][Landed(ev') => MergeSections(sections', BatchOf(ev')) = sections']_vars

\* C29 witness: a cycle has landed on usable sections with a failure, kept
\* stale, and a fresh result, committed; the sections differ from the batch.
MergeIdempotentCase ==
    /\ Landed(ev) /\ ev.stale # {} /\ ev.replaced # {}
    /\ sections # BatchOf(ev)
    /\ MergeSections(sections, BatchOf(ev)) = sections


(***************************************************************************)
(* Properties of the delay of a row (under RowSpec)                        *)
(***************************************************************************)
\* the delay line of CompactDepartureRow: nothing without real-time data,
\* the signed minutes beyond two minutes either way, else 'live'
DelayText(timeInfo) ==
    IF ~timeInfo.isRealTime THEN <<>>
    ELSE IF timeInfo.delayMinutes < -2 THEN <<"", timeInfo.delayMinutes>>
    ELSE IF timeInfo.delayMinutes > 2 THEN <<"+", timeInfo.delayMinutes>>
    ELSE <<"live">>

\* the delay line of the row of departure d
DelayOf(d) == DelayText(FormatDepartureTime(d.scheduledTime, d.estimatedTime, now))

\* C30 (delay dead-band, as claimed): the delay line of a real-time
\* departure is numeric exactly when the line of the departure with the
\* opposite difference (scheduled and estimated instants exchanged) is.
DelaySymmetric ==
    departure.estimatedTime # <<>> =>
        LET mirror == [scheduledTime |-> departure.estimatedTime[1],
                       estimatedTime |-> <<departure.scheduledTime>>]
        IN  (DelayOf(departure) = <<"live">>) <=> (DelayOf(mirror) = <<"live">>)

\* C30 (delay dead-band, amended): without estimatedTime the delay is 0 and
\* no delay line is shown; with one, delayMinutes is the integer nearest
\* to (estimatedTime - scheduledTime) / 60 s, a half going up, and the line
\* is +n when delayMinutes > 2, that is from 2.5 minutes late on, n when
\* delayMinutes < -2, that is for more than 2.5 minutes early, and 'live'
\* otherwise.
DelayDeadBand ==
    LET timeInfo == FormatDepartureTime(departure.scheduledTime, departure.estimatedTime, now)
        n == timeInfo.delayMinutes
        half == MsPerMinute \div 2
    IN  IF departure.estimatedTime = <<>>
        THEN n = 0 /\ ~timeInfo.isRealTime /\ DelayOf(departure) = <<>>
        ELSE LET diff == departure.estimatedTime[1] - departure.scheduledTime
             IN  /\ n * MsPerMinute - half <= diff
                 /\ diff < n * MsPerMinute + half
                 /\ DelayOf(departure) =
                        IF diff >= 5 * half THEN <<"+", n>>
                        ELSE IF diff < -(5 * half) THEN <<"", n>>
                        ELSE <<"live">>

\* C30 witness: a departure exactly 2.5 minutes early is shown as live
DelayDeadBandCase ==
    /\ departure.estimatedTime # <<>>
    /\ departure.estimatedTime[1] - departure.scheduledTime = -(5 * (MsPerMinute \div 2))
    /\ DelayOf(departure) = <<"live">>

(***************************************************************************)
(* What CombinedBoard shows (under NearbySpec)                             *)
(***************************************************************************)
\* the blocks CombinedBoard renders for the props it is given
CombinedBoardShows(s, secs, loadingNearby) ==
    Holding([
      welcome |-> ~s.nearbyMode /\ s.stops = <<>>,
      detecting |-> s.nearbyMode /\ loadingNearby /\ secs = <<>>,
      noNearbyStops |-> s.nearbyMode /\ ~loadingNearby /\ secs = <<>>,
      sections |-> secs # <<>>])

\* C31 (location failure shows a section-less state): in nearby mode, when
\* a position lookup fails or a discovery brings no stops, the board shows
\* the detecting / no-nearby-stops block and no section, no section is
\* committed, and isLoadingNearby is false.
LocationFailureSectionless ==
    [][(/\ mounted /\ settings'.nearbyMode
        /\ discoveries' < discoveries
        /\ "locationError" \in ev'.facts \/ nearbyStops' = <<>>)
       => /\ sections' = <<>>
          /\ CombinedBoardShows(settings', sections', isLoadingNearby')
                 \subseteq {"detecting", "noNearbyStops"}
          /\ ~isLoadingNearby']_vars

(***************************************************************************)
(* Refreshing in the background (under ResumeSpec)                         *)
(***************************************************************************)
\* C32 (background refresh leaves the view untouched): a step that starts a
\* fetch cycle for at least one stop leaves the committed sections as they
\* were, none of them loading; and a step in which the page becomes visible
\* sets the clock of the rows to the current time.
BackgroundRefresh ==
    [][/\ Len(cycles') > Len(cycles)
          => /\ sections' = sections
             /\ \A i \in 1..Len(sections') : ~sections'[i].isLoading
       /\ (jsEnabled /\ mounted /\ hidden /\ ~hidden') => now' = clock']_vars

\* a resume that found the clock of the rows behind, set it and started a
\* cycle while a usable section stays committed
BackgroundRefreshCase ==
    /\ "resume" \in ev.facts /\ "started" \in ev.facts
    /\ now = clock /\ clock > 0
    /\ Len(cycles) > 0
    /\ \E i \in 1..Len(sections) : Usable(sections[i])

(***************************************************************************)
(* The stops to fetch (under ResolverSpec)                                 *)
(***************************************************************************)
\* C33 (resolver on configuration): the stops getEnabledStops gives for
\* the saved stop lists are, mode by mode (tram before train), exactly the
\* enabled entries of the mode's list in the order of the list, each with
\* its stop and its direction filter.
ResolverOnConfiguration ==
    LET lists == settings.providerSettings
        EnabledAt(mode) == {i \in 1..Len(lists[mode]) : lists[mode][i].enabled}
        Kth(indices, k) == CHOOSE i \in indices : Cardinality({j \in indices : j < i}) = k - 1
        OfMode(mode) == SelectSeq(settings.stops, LAMBDA stop : stop.mode = mode)
    IN  /\ \A i \in 1..Len(settings.stops) : settings.stops[i].mode \in {"tram", "train"}
        /\ \A i, j \in 1..Len(settings.stops) :
              (i < j /\ settings.stops[i].mode = "train") => settings.stops[j].mode = "train"
        /\ \A mode \in {"tram", "train"} :
              /\ Len(OfMode(mode)) = Cardinality(EnabledAt(mode))
              /\ \A k \in 1..Len(OfMode(mode)) :
                    LET config == lists[mode][Kth(EnabledAt(mode), k)]
                    IN  /\ OfMode(mode)[k].id = config.stop.id
                        /\ OfMode(mode)[k].name = config.stop.name
                        /\ OfMode(mode)[k].directionIds = config.directionIds

\* the first of two tram stops was disabled in the settings modal: the
\* cycle that follows fetches the second, filtered, and the train stop
ResolverOnConfigurationCase ==
    /\ "settings" \in ev.facts /\ ~settings.nearbyMode
    /\ Len(settings.providerSettings.tram) = 2
    /\ ~settings.providerSettings.tram[1].enabled
    /\ settings.providerSettings.tram[2].directionIds = {"x"}
    /\ Len(settings.stops) = 2
    /\ settings.stops[1].directionIds = {"x"} /\ settings.stops[2].mode = "train"
    /\ cycles # <<>> /\ cycles[Len(cycles)].stops = settings.stops

\* the stops of mode among the nearby stops
NearbyOfMode(mode) == SelectSeq(nearbyStops, LAMBDA stop : stop.mode = mode)

RequestSizing ==
    \A k \in 1..Len(cycles) :
        LET c == cycles[k]
            Filtered(i) == c.stops[i].directionIds # {}
        IN  \A i \in 1..Len(c.stops) :
                /\ ~Filtered(i) => c.limits[i] >= 3 * departuresPerMode
                /\ c.limits[i] >= 2 * departuresPerMode
                /\ \A j \in 1..Len(c.stops) :
                      (Filtered(i) /\ ~Filtered(j)) => c.limits[i] < c.limits[j]

\* a cycle in flight for a filtered and an unfiltered stop, five departures
\* per stop shown
RequestSizingCase ==
    /\ departuresPerMode = MaxDisplayCount
    /\ \E k \in 1..Len(cycles) :
          /\ cycles[k].stops = <<StopAx, StopB>>
          /\ cycles[k].limits[1] < cycles[k].limits[2]

(***************************************************************************)
(* RefreshController (under ControllerSpec)                                *)
(***************************************************************************)
\* C36 (refresh is paused while the tab is hidden): onRefresh is never
\* called while the page is hidden.
NoRefreshWhileHidden == ~(controller.invoked /\ controller.hidden)

\* C39 (one timer, one call): at most one refresh timer is pending and at
\* most one onRefresh call is in flight; after a rejected onRefresh the
\* status is idle and, the page being shown, the timer the ref holds is
\* pending.
SingleTimerSingleCall ==
    /\ Len(controller.timers) <= 1
    /\ controller.calls <= 1
    /\ controller.settled = "rejected" =>
          /\ ~controller.isRefreshing
          /\ controller.isVisible =>
                \E k \in 1..Len(controller.timers) :
                    controller.timers[k].id = controller.refreshTimeoutRef


\* C37 (direction filter on committed data): when a cycle started for the
\* stops of the current configuration has landed, the committed section of
\* a stop with a direction filter holds only departures whose direction is
\* in that filter and is not grouped by direction, and the section of a
\* stop without a filter is grouped by direction; whatever the responses
\* were, and whatever was committed for the stop before.
FilterOnCommitted ==
    (Landed(ev) /\ ~settings.nearbyMode /\ ev.stops = settings.stops) =>
        \A i \in 1..Len(ev.stops) :
            LET directionIds == ev.stops[i].directionIds
                section == sections[i]
            IN  IF directionIds # {}
                THEN /\ \A k \in 1..Len(section.departures) :
                            section.departures[k].direction \in directionIds
                     /\ ~section.groupByDirection
                ELSE section.groupByDirection

\* C38 (only observed transitions fade): a departure enters the fading set
\* only in the effect of a render in which it is gone and still in the
\* data, having been in the upcoming set of the render before; so a
\* departure that is gone in the first render that has it never fades.  A
\* gone departure is rendered only while it is fading, and a departure
\* that has left the data is not rendered and starts no fade.  Once the
\* effect has run, the previous upcoming set is that of the last render.
OnlyObservedFade ==
    [][LET goneIds == Ids(GoneDepartures(boardSection', now'))
           entering == fadingOutIds' \ fadingOutIds
       IN  /\ entering \subseteq previousDepartureIds \cap goneIds
           /\ entering # {} => effectPending
           /\ RenderedIds(rendered') \cap goneIds \subseteq fadingOutIds'
           /\ RenderedIds(rendered') \subseteq Ids(boardSection'.departures)
           /\ \A timer \in fadeTimers' \ fadeTimers :
                 timer.remaining = FADE_OUT_DURATION => timer.ids = entering
           /\ ~effectPending' =>
                 previousDepartureIds' = Ids(UpcomingDepartures(boardSection', now'))
      ]_vars

\* the effect has run for a render whose data hold a gone departure that is
\* not fading, has no fade behind it and is not rendered, beside a
\* departure that is fading
OnlyObservedFadeCase ==
    /\ ~effectPending
    /\ fadingOutIds # {}
    /\ \E id \in Ids(GoneDepartures(boardSection, now)) :
          /\ id \notin fadingOutIds
          /\ id \notin fadedIds
          /\ id \notin RenderedIds(rendered)

====
